---- MODULE Spec2Model ----
(***************************************************************************)
(* Source health and scheduling engine of the PIN pipeline:                *)
(*   health.py  (probe, backoff policy, check command)                     *)
(*   fetch.py   (batch scheduler, fetch command)                           *)
(*   stale.py   (reviver)                                                  *)
(* Time is counted in whole minutes.  A timestamp is the minute it was     *)
(* taken at, and the clock reads of one call fall in the same minute; an   *)
(* absent (null) field is None.  Under Spec a registry holds one record, a *)
(* Source or a WQPState: every step of the commands reads and writes the   *)
(* one record it is about.  Under BatchSpec the batch scheduler, which     *)
(* orders the records, is applied to registries of several records.        *)
(***************************************************************************)
EXTENDS Integers, Sequences, FiniteSets, TLC

\* JSON null / Python None for a timestamp, a backoff or a latency.
None == -1

\* ---------------------------------------------------------------- bounds

\* Consecutive failures a record may accumulate before failing steps stop.
MaxErr == 4

\* The largest N of --next-batch N.
MaxBatch == 2

\* The minutes at which the clock may be read.
Instants == {0, 15, 1455, 10095}

\* ------------------------------------------------ health.py: the schedule

BASE_INTERVAL_MIN == 5
DEGRADED_INTERVAL_MIN == 15
DEAD_INTERVAL_MIN == 60
DEAD_24H_INTERVAL_MIN == 360
DEAD_7D_INTERVAL_MIN == 1440
MAX_BACKOFF_MIN == 1440

\* timedelta(hours=24) and timedelta(days=7), in minutes.
HOURS_24 == 1440
DAYS_7 == 10080

\* compute_backoff without the duration tier.
compute_backoff_count_only(src, utcnow) ==
    IF src.error_count = 0 THEN BASE_INTERVAL_MIN
    ELSE IF src.error_count >= 4 THEN DEAD_INTERVAL_MIN
    ELSE DEGRADED_INTERVAL_MIN

\* compute_backoff with the escalation to DEAD_INTERVAL_MIN one failure late.
compute_backoff_late(src, utcnow) ==
    IF src.error_count = 0 THEN BASE_INTERVAL_MIN
    ELSE IF src.first_failure # None /\ utcnow - src.first_failure > DAYS_7
         THEN DEAD_7D_INTERVAL_MIN
    ELSE IF src.first_failure # None /\ utcnow - src.first_failure > HOURS_24
         THEN DEAD_24H_INTERVAL_MIN
    ELSE IF src.error_count > 4 THEN DEAD_INTERVAL_MIN
    ELSE DEGRADED_INTERVAL_MIN

\* compute_backoff with >= in place of > in the duration tests.
compute_backoff_inclusive(src, utcnow) ==
    IF src.error_count = 0 THEN BASE_INTERVAL_MIN
    ELSE IF src.first_failure # None /\ utcnow - src.first_failure >= DAYS_7
         THEN DEAD_7D_INTERVAL_MIN
    ELSE IF src.first_failure # None /\ utcnow - src.first_failure >= HOURS_24
         THEN DEAD_24H_INTERVAL_MIN
    ELSE IF src.error_count >= 4 THEN DEAD_INTERVAL_MIN
    ELSE DEGRADED_INTERVAL_MIN

\* health.py compute_backoff: the next check interval, in minutes.
compute_backoff(src, utcnow) ==
    IF src.error_count = 0 THEN BASE_INTERVAL_MIN
    ELSE IF src.first_failure # None /\ utcnow - src.first_failure > DAYS_7
         THEN DEAD_7D_INTERVAL_MIN
    ELSE IF src.first_failure # None /\ utcnow - src.first_failure > HOURS_24
         THEN DEAD_24H_INTERVAL_MIN
    ELSE IF src.error_count >= 4 THEN DEAD_INTERVAL_MIN
    ELSE DEGRADED_INTERVAL_MIN

\* The reason of a call that does not skip (Python None).
NoReason == << >>

\* should_skip that ignores the force flag.
should_skip_unforced(src, force, utcnow) ==
    IF src.next_check_after = None THEN <<FALSE, NoReason>>
    ELSE IF utcnow < src.next_check_after
         THEN <<TRUE, <<src.next_check_after - utcnow, src.backoff_minutes>> >>
    ELSE <<FALSE, NoReason>>

\* health.py should_skip: <<skip, reason>>; the reason carries the minutes
\* left and the record's backoff_minutes, as the message does.
should_skip(src, force, utcnow) ==
    IF force THEN <<FALSE, NoReason>>
    ELSE IF src.next_check_after = None THEN <<FALSE, NoReason>>
    ELSE IF utcnow < src.next_check_after
         THEN <<TRUE, <<src.next_check_after - utcnow, src.backoff_minutes>> >>
    ELSE <<FALSE, NoReason>>

\* update_backoff_fields that keeps first_failure on a live result.
update_backoff_fields_keep_ff(src, status, utcnow) ==
    IF status = "live"
    THEN [src EXCEPT !.error_count = 0,
                     !.backoff_minutes = BASE_INTERVAL_MIN,
                     !.next_check_after = utcnow + BASE_INTERVAL_MIN,
                     !.last_checked = utcnow]
    ELSE LET failed == [src EXCEPT
                 !.error_count = @ + 1,
                 !.first_failure = IF @ = None THEN utcnow ELSE @]
             backoff == compute_backoff(failed, utcnow)
         IN  [failed EXCEPT !.backoff_minutes = backoff,
                            !.next_check_after = utcnow + backoff,
                            !.last_checked = utcnow]

\* update_backoff_fields that does not count the failure.
update_backoff_fields_no_count(src, status, utcnow) ==
    IF status = "live"
    THEN [src EXCEPT !.error_count = 0,
                     !.backoff_minutes = BASE_INTERVAL_MIN,
                     !.first_failure = None,
                     !.next_check_after = utcnow + BASE_INTERVAL_MIN,
                     !.last_checked = utcnow]
    ELSE LET failed == [src EXCEPT
                 !.first_failure = IF @ = None THEN utcnow ELSE @]
             backoff == compute_backoff(failed, utcnow)
         IN  [failed EXCEPT !.backoff_minutes = backoff,
                            !.next_check_after = utcnow + backoff,
                            !.last_checked = utcnow]

\* health.py update_backoff_fields: the record after a probe returned status.
update_backoff_fields(src, status, utcnow) ==
    IF status = "live"
    THEN [src EXCEPT !.error_count = 0,
                     !.backoff_minutes = BASE_INTERVAL_MIN,
                     !.first_failure = None,
                     !.next_check_after = utcnow + BASE_INTERVAL_MIN,
                     !.last_checked = utcnow]
    ELSE LET failed == [src EXCEPT
                 !.error_count = @ + 1,
                 !.first_failure = IF @ = None THEN utcnow ELSE @]
             backoff == compute_backoff(failed, utcnow)
         IN  [failed EXCEPT !.backoff_minutes = backoff,
                            !.next_check_after = utcnow + backoff,
                            !.last_checked = utcnow]

\* What a request can come back with: an HTTP status code, a timeout, a
\* connection-level failure, or any other exception.
HttpCodes == {200, 299, 300, 404, 499, 500, 503}
Responses ==
    [kind : {"http"}, code : HttpCodes]
        \cup [kind : {"timeout", "connection", "other"}, code : {0}]

\* The responses the commands are run on: one for each way probe can come
\* out (live, degraded by status, dead by status, degraded by timeout, dead
\* by exception).
Outcomes ==
    {response \in Responses :
         \/ response.kind = "http" /\ response.code \in {200, 404, 503}
         \/ response.kind \in {"timeout", "connection"}}

\* The error probe returns: none, "HTTP {code}", "Timeout", or the first 120
\* characters of the exception's message.
NoError == << >>
HttpError(code) == <<"HTTP", code>>

\* probe with the two boundary codes on the other side.
probe_inclusive(response) ==
    IF response.kind = "http"
    THEN IF response.code <= 300 THEN <<"live", NoError>>
         ELSE IF response.code <= 500
         THEN <<"degraded", HttpError(response.code)>>
         ELSE <<"dead", HttpError(response.code)>>
    ELSE IF response.kind = "timeout" THEN <<"degraded", <<"Timeout">> >>
    ELSE <<"dead", <<"message">> >>

\* health.py probe: <<status, error>> for a response.
probe(response) ==
    IF response.kind = "http"
    THEN IF response.code < 300 THEN <<"live", NoError>>
         ELSE IF response.code < 500
         THEN <<"degraded", HttpError(response.code)>>
         ELSE <<"dead", HttpError(response.code)>>
    ELSE IF response.kind = "timeout" THEN <<"degraded", <<"Timeout">> >>
    ELSE <<"dead", <<"message">> >>

\* check_source that leaves the status field to a later step.
check_source_keeps_status(src, response, utcnow) ==
    IF src.status = "gated"
    THEN [src |-> src, status |-> "gated"]
    ELSE LET status == probe(response)[1]
         IN  [src |-> update_backoff_fields(src, status, utcnow),
              status |-> status]

\* health.py check_source: [src |-> the record afterwards, status |-> result].
check_source(src, response, utcnow) ==
    IF src.status = "gated"
    THEN [src |-> src, status |-> "gated"]
    ELSE LET status == probe(response)[1]
         IN  [src |-> [update_backoff_fields(src, status, utcnow)
                          EXCEPT !.status = status],
              status |-> status]


\* ------------------------------------------------------------ the registry

\* The catalogs a registry is created from: the sources in registry order
\* and the WQP jurisdictions in the order of the wqp_states mapping.
Catalogs ==
    { [sources |-> << [id |-> "usgs-nwis", type |-> "federal", priority |-> 1,
                       url |-> "url", alt_urls |-> <<"alt1", "alt2">>] >>,
       wqp |-> << >>],
      [sources |-> << >>,
       wqp |-> << [abbr |-> "MD", fips |-> "24", name |-> "Maryland",
                   priority |-> 1] >>] }

\* The jurisdiction codes in the order sorted() puts them.
AbbrOrder == <<"MD", "VA">>
AbbrRank(abbr) == CHOOSE i \in 1..Len(AbbrOrder) : AbbrOrder[i] = abbr

\* A Source record as it is first created from the catalog.
NewSource(c, status) ==
    [id |-> c.id, type |-> c.type, priority |-> c.priority, url |-> c.url,
     alt_urls |-> c.alt_urls, status |-> status, error_count |-> 0,
     first_failure |-> None, last_checked |-> None, last_fetch |-> None,
     last_success |-> None, backoff_minutes |-> None,
     next_check_after |-> None]

\* A WQPState record as it is first created from the catalog.
NewWqpState(c, status) ==
    [fips |-> c.fips, name |-> c.name, priority |-> c.priority,
     status |-> status, error_count |-> 0, first_failure |-> None,
     last_checked |-> None, last_fetch |-> None, last_success |-> None,
     backoff_minutes |-> None, next_check_after |-> None]

\* The registries the pipeline starts from: every record is new, and is live
\* or has been marked gated by hand.
InitialRegistries ==
    UNION { { [meta |-> [updated |-> 0],
               sources |-> [i \in 1..Len(c.sources) |->
                                NewSource(c.sources[i], ss[i])],
               wqp_order |-> [i \in 1..Len(c.wqp) |-> c.wqp[i].abbr],
               wqp_states |-> [a \in {c.wqp[i].abbr : i \in 1..Len(c.wqp)} |->
                                LET i == CHOOSE j \in 1..Len(c.wqp) :
                                             c.wqp[j].abbr = a
                                IN  NewWqpState(c.wqp[i], ws[i])]] :
              ss \in [1..Len(c.sources) -> {"live", "gated"}],
              ws \in [1..Len(c.wqp) -> {"live", "gated"}] } : c \in Catalogs }

SourceIds(r) == {r.sources[i].id : i \in 1..Len(r.sources)}
SourceIndex(r, id) == CHOOSE i \in 1..Len(r.sources) : r.sources[i].id = id
GetSource(r, id) == r.sources[SourceIndex(r, id)]
SetSource(r, id, src) == [r EXCEPT !.sources[SourceIndex(r, id)] = src]
SetWqp(r, abbr, st) == [r EXCEPT !.wqp_states[abbr] = st]

\* sorted(wqp.items()): the jurisdiction codes in ascending order.
RECURSIVE SortedAbbrs(_)
SortedAbbrs(S) ==
    IF S = {} THEN << >>
    ELSE LET a == CHOOSE x \in S : \A y \in S : AbbrRank(x) <= AbbrRank(y)
         IN  <<a>> \o SortedAbbrs(S \ {a})

\* ------------------------------------------------------------------ state

VARIABLES
    now,    \* the clock, in minutes
    disk,   \* the persisted registry (registry.json)
    reg,    \* the registry in the memory of the running command
    pc,     \* where the running command is; "idle" when none runs
    args,   \* the flags the loops of the running command read
    todo,   \* the targets the running command has still to visit, in order
    ev,     \* what the last step did, to which record, and the record before
    file,   \* "whole" when registry.json holds the document disk, "partial"
            \* when a write of it was cut short
    orch    \* run.py: where main is, its flags and counters, the step whose
            \* process it waits for, and the steps that have returned

vars == <<now, disk, reg, pc, args, todo, ev, file, orch>>

NoSource == ""
NoArgs == [force |-> FALSE, dry_run |-> FALSE]
NoRecord == [status |-> "none"]
\* What report has found when it has not run.
NoReport == << >>

\* health.py main: the counts of a check run when it starts.
ZeroCounts ==
    [live |-> 0, degraded |-> 0, dead |-> 0, gated |-> 0, skipped |-> 0]

\* A tally that leaves skipped targets out.
tally_without_skipped(c, key) ==
    IF key = "skipped" THEN c ELSE [c EXCEPT ![key] = @ + 1]

\* health.py main: counts[key] += 1.
tally(c, key) == [c EXCEPT ![key] = @ + 1]

\* An event: the step (op) of which command (cmd), the record it was about
\* (kind, key) as it was before the step (pre), the status the step found,
\* the --force (or --revive) flag, what should_skip returned (ret), the batch_size a
\* batch was picked with (n), whether the run has met an id that is not in
\* the registry (unknown), the time (at), what report found (report), and
\* the error and the label a function returned, and whether a process has
\* saved while another held a registry it had loaded before (overlap), and
\* the counts of the check run so far (counts).
NoEvent == [op |-> "none", cmd |-> "none", kind |-> "none", key |-> "",
            pre |-> NoRecord, status |-> "none", force |-> FALSE,
            ret |-> <<FALSE, << >> >>, n |-> None, unknown |-> FALSE,
            at |-> None, report |-> NoReport, error |-> NoError,
            label |-> "", overlap |-> FALSE, counts |-> ZeroCounts]

\* health.py main: the counts of the check run so far.
counts == ev.counts

Target(kind, key) == [kind |-> kind, key |-> key]
SourceTargets(r, ids) ==
    SelectSeq([i \in 1..Len(r.sources) |-> Target("federal", r.sources[i].id)],
              LAMBDA t : t.key \in ids)
WqpTargets(abbrs) == [i \in 1..Len(abbrs) |-> Target("wqp", abbrs[i])]

\* The flags of run.py that decide which steps run and with what.
NoFlags == [skip_health |-> FALSE, health_only |-> FALSE, dry_run |-> FALSE,
            all_states |-> FALSE, states |-> << >>]

\* run.py is not running.
NoOrch == [at |-> "off", flags |-> NoFlags, steps_run |-> 0, steps_ok |-> 0,
           child |-> "", log |-> << >>]

Init ==
    /\ now = 0
    /\ disk \in InitialRegistries
    /\ reg = disk
    /\ pc = "idle"
    /\ args = NoArgs
    /\ todo = << >>
    /\ ev = NoEvent
    /\ orch = NoOrch
    /\ file = "whole"

\* Time passes.
Tick ==
    /\ \E t \in Instants : t > now /\ now' = t
    /\ UNCHANGED <<orch, disk, reg, pc, args, todo, ev, file>>

\* load_registry: the document json.load returns.
load_registry == disk

\* A json.load that takes whatever the file holds for a document.
Unparseable_never == FALSE

\* json.load raises: the file does not hold a whole document.
Unparseable == file = "partial"

\* The programs, as the command line starts them.
Programs == {"health.py", "fetch.py", "stale.py --report", "stale.py --revive"}

\* A program started on a file that does not parse: load_registry raises,
\* nothing catches it, and the program ends with a traceback.
LoadFails(program) ==
    /\ pc = "idle"
    /\ Unparseable
    /\ ev' = [NoEvent EXCEPT !.op = "abort", !.cmd = program,
                             !.status = "exit 1"]
    /\ UNCHANGED <<orch, now, disk, reg, pc, args, todo, file>>

\* The fields of a record that hold a timestamp or a number of minutes, or
\* None.
Nullable ==
    {"first_failure", "last_checked", "last_fetch", "last_success",
     "backoff_minutes", "next_check_after"}

\* What the file holds for such a field: the literal null, or a value.
JsonNull == [null |-> TRUE, value |-> 0]
JsonValue(v) == [null |-> FALSE, value |-> v]

\* json.dump that writes a sentinel value where the field is None.
json_dump_sentinel(r) ==
    LET object(rec) ==
            [f \in DOMAIN rec |->
                 IF f \in Nullable
                 THEN JsonValue(IF rec[f] = None THEN 0 ELSE rec[f])
                 ELSE rec[f]]
    IN  [meta |-> r.meta,
         sources |-> [i \in 1..Len(r.sources) |-> object(r.sources[i])],
         wqp_states |-> [i \in 1..Len(r.wqp_order) |->
                            <<r.wqp_order[i],
                              object(r.wqp_states[r.wqp_order[i]])>>]]

\* json.dump(reg, f, indent=2): the text of the file.  The sources are
\* written in list order, the members of wqp_states in the order of the
\* dictionary, and None as null.
json_dump(r) ==
    LET object(rec) ==
            [f \in DOMAIN rec |->
                 IF f \in Nullable
                 THEN IF rec[f] = None THEN JsonNull ELSE JsonValue(rec[f])
                 ELSE rec[f]]
    IN  [meta |-> r.meta,
         sources |-> [i \in 1..Len(r.sources) |-> object(r.sources[i])],
         wqp_states |-> [i \in 1..Len(r.wqp_order) |->
                            <<r.wqp_order[i],
                              object(r.wqp_states[r.wqp_order[i]])>>]]

\* json.load(f): the document of a text.  The dictionary has its keys in
\* the order of the text, and null is None.
json_load(text) ==
    LET dict(object) ==
            [f \in DOMAIN object |->
                 IF f \in Nullable
                 THEN IF object[f].null THEN None ELSE object[f].value
                 ELSE object[f]]
        members == text.wqp_states
    IN  [meta |-> text.meta,
         sources |-> [i \in 1..Len(text.sources) |-> dict(text.sources[i])],
         wqp_order |-> [i \in 1..Len(members) |-> members[i][1]],
         wqp_states |->
             [a \in {members[i][1] : i \in 1..Len(members)} |->
                  LET i == CHOOSE j \in 1..Len(members) : members[j][1] = a
                  IN  dict(members[i][2])]]

\* A save that leaves the file alone when it was written since r was
\* loaded.
save_registry_unless_newer(r) ==
    IF disk.meta.updated # r.meta.updated THEN disk
    ELSE json_load(json_dump([r EXCEPT !.meta.updated = now]))

\* save_registry: stamps meta.updated and overwrites the persisted
\* registry; the result is the document the file then holds.
save_registry(r) == json_load(json_dump([r EXCEPT !.meta.updated = now]))

\* The command's save, followed by its exit.
Save ==
    /\ pc = "save"
    /\ disk' = save_registry(reg)
    /\ file' = "whole"
    /\ reg' = disk'
    /\ pc' = "idle"
    /\ ev' = [NoEvent EXCEPT !.op = "save", !.status = "exit 0",
                             !.unknown = ev.unknown, !.at = now]
    /\ UNCHANGED <<args, todo>>
    /\ UNCHANGED <<orch, now>>

\* The process is killed before it has called save_registry: what it holds
\* in memory is gone, and the file is as it was.
Kill ==
    /\ pc # "idle"
    /\ pc' = "idle"
    /\ reg' = disk
    /\ ev' = [NoEvent EXCEPT !.op = "killed", !.key = pc,
                             !.status = IF reg # disk THEN "updates lost"
                                        ELSE "nothing lost",
                             !.at = now]
    /\ todo' = << >>
    /\ args' = NoArgs
    /\ UNCHANGED <<orch, now, disk, file>>

\* The process is killed inside save_registry, after open(REGISTRY, "w")
\* has emptied the file and before json.dump has written all of the
\* document.
SaveKilled ==
    /\ pc = "save"
    /\ file' = "partial"
    /\ reg' = disk
    /\ pc' = "idle"
    /\ ev' = [NoEvent EXCEPT !.op = "killed", !.status = "file cut short"]
    /\ UNCHANGED <<orch, now, disk, args, todo>>

\* --------------------------------------------------- fetch.py: scheduling

\* The ids FETCHER_MAP has an entry for, and the ids of STATE_SOCRATA_URLS.
FETCHER_MAP ==
    {"usgs-nwis", "epa-sdwis", "icis_npdes", "icis_dmr", "echo_facilities",
     "echo_violations", "frs_wwtps", "pfas_ucmr", "cdc_nwss", "nps_wq",
     "datagov_wq", "nasa_cmr", "state_ny", "state_nj", "state_pa", "state_va"}
STATE_SOCRATA_URLS == {"state_ny", "state_nj", "state_pa", "state_va"}

\* The ids pick_next_batch and the fetch modes leave to other means.
OutOfBand == {"wqp-portal", "epa-attains"}

\* list.sort(key=...) / sorted(key=...): a stable ascending sort of seq,
\* whose i-th element has the integer or tuple key that `less` orders:
\* <<i, j>> \in less when the key of the i-th is below that of the j-th.
StableSort(seq, less) ==
    LET n == Len(seq)
        rank(i) == 1 + Cardinality({j \in 1..n :
                        \/ <<j, i>> \in less
                        \/ <<i, j>> \notin less /\ j < i})
    IN  [p \in 1..n |-> seq[CHOOSE i \in 1..n : rank(i) = p]]

\* A sort key that puts the priority before the fetch history.
SortKey_priority_first(st) ==
    <<FALSE, st.priority, st.last_fetch>>

\* A sort key that puts the latest fetch first.
SortKey_newest_first(st) ==
    <<st.last_fetch # None, 0 - st.last_fetch, st.priority>>

\* The sort key of a jurisdiction in pick_next_batch.
SortKey(st) ==
    <<st.last_fetch # None, st.last_fetch, st.priority>>

\* Python's order on the sort keys (False < True, then field by field).
KeyLess(k1, k2) ==
    \/ ~k1[1] /\ k2[1]
    \/ k1[1] = k2[1] /\ k1[2] < k2[2]
    \/ k1[1] = k2[1] /\ k1[2] = k2[2] /\ k1[3] < k2[3]

\* The loop over the sources when it skips the dead ones only.
RECURSIVE FederalPhase_keeps_gated(_, _, _, _)
FederalPhase_keeps_gated(r, i, batch, batch_size) ==
    IF i > Len(r.sources) THEN [batch |-> batch, returned |-> FALSE]
    ELSE LET src == r.sources[i]
         IN  IF src.status = "dead"
             THEN FederalPhase_keeps_gated(r, i + 1, batch, batch_size)
             ELSE IF src.id \in OutOfBand
             THEN FederalPhase_keeps_gated(r, i + 1, batch, batch_size)
             ELSE LET b == IF src.last_fetch = None
                           THEN Append(batch, Target("federal", src.id))
                           ELSE batch
                  IN  IF Len(b) >= batch_size
                      THEN [batch |-> b, returned |-> TRUE]
                      ELSE FederalPhase_keeps_gated(r, i + 1, b, batch_size)

\* The loop of pick_next_batch over the sources, from the i-th on.
RECURSIVE FederalPhase(_, _, _, _)
FederalPhase(r, i, batch, batch_size) ==
    IF i > Len(r.sources) THEN [batch |-> batch, returned |-> FALSE]
    ELSE LET src == r.sources[i]
         IN  IF src.status = "dead" \/ src.status = "gated"
             THEN FederalPhase(r, i + 1, batch, batch_size)
             ELSE IF src.id \in OutOfBand
             THEN FederalPhase(r, i + 1, batch, batch_size)
             ELSE LET b == IF src.last_fetch = None
                           THEN Append(batch, Target("federal", src.id))
                           ELSE batch
                  IN  IF Len(b) >= batch_size
                      THEN [batch |-> b, returned |-> TRUE]
                      ELSE FederalPhase(r, i + 1, b, batch_size)

\* pick_next_batch with the jurisdictions taken before the sources.
pick_next_batch_wqp_first(r, batch_size) ==
    LET queue == SelectSeq(r.wqp_order,
                           LAMBDA a : r.wqp_states[a].status # "dead")
        state_queue ==
            StableSort(queue,
                       {ij \in (DOMAIN queue) \X (DOMAIN queue) :
                            KeyLess(SortKey(r.wqp_states[queue[ij[1]]]),
                                    SortKey(r.wqp_states[queue[ij[2]]]))})
        taken == IF Len(state_queue) <= batch_size THEN state_queue
                 ELSE SubSeq(state_queue, 1, batch_size)
        fed == FederalPhase(r, 1, << >>, batch_size - Len(taken))
    IN  WqpTargets(taken) \o fed.batch

\* fetch.py pick_next_batch: the targets of the next batch, in order.
pick_next_batch(r, batch_size) ==
    LET fed == FederalPhase(r, 1, << >>, batch_size)
        queue == SelectSeq(r.wqp_order,
                           LAMBDA a : r.wqp_states[a].status # "dead")
        state_queue ==
            StableSort(queue,
                       {ij \in (DOMAIN queue) \X (DOMAIN queue) :
                            KeyLess(SortKey(r.wqp_states[queue[ij[1]]]),
                                    SortKey(r.wqp_states[queue[ij[2]]]))})
        room == IF batch_size > Len(fed.batch)
                THEN batch_size - Len(fed.batch) ELSE 0
        taken == IF Len(state_queue) <= room THEN state_queue
                 ELSE SubSeq(state_queue, 1, room)
    IN  IF fed.returned THEN fed.batch
        ELSE fed.batch \o WqpTargets(taken)

\* A command enters its loops with the targets they will visit, or goes
\* straight to its save when there is none.
Begin(here, targets, a) ==
    /\ todo' = targets
    /\ pc' = IF targets = << >> THEN "save" ELSE here
    /\ args' = IF targets = << >> THEN NoArgs ELSE a

\* A loop that ends after its first pass.
Proceed_first_only ==
    /\ todo' = << >>
    /\ pc' = "save"
    /\ args' = NoArgs

\* A loop that goes to the save after every pass.
Proceed_checkpoint ==
    /\ todo' = Tail(todo)
    /\ pc' = "save"
    /\ args' = args

\* A loop goes on to the next target, or the command to its save.
Proceed ==
    /\ todo' = Tail(todo)
    /\ pc' = IF Tail(todo) = << >> THEN "save" ELSE pc
    /\ args' = IF Tail(todo) = << >> THEN NoArgs ELSE args

\* ------------------------------------------------- health.py: main (check)

\* The source ids a command line may name: those of the registry and one
\* that is not in it.
SourceArgs == {NoSource, "no-such-source"} \cup SourceIds(disk)

\* The targets of the loop over the WQP jurisdictions, in sorted order.
SortedWqpTargets(r) == WqpTargets(SortedAbbrs(DOMAIN r.wqp_states))

\* health.py main up to its first loop.  --fast only selects the request
\* (HEAD, 5 s, or GET, 15 s), so it is not an argument here.
StartCheck(force, source, wqp) ==
    /\ pc = "idle"
    /\ ~Unparseable
    /\ LET r == load_registry
           ids == IF source # NoSource THEN {source} \cap SourceIds(r)
                  ELSE SourceIds(r)
           sources == IF ~wqp \/ source # NoSource
                      THEN SourceTargets(r, ids) ELSE << >>
           states == IF wqp \/ source = NoSource
                     THEN SortedWqpTargets(r) ELSE << >>
       IN  IF source # NoSource /\ ids = {}
           THEN \* sys.exit(1): the targets are left unvisited
                /\ ev' = [NoEvent EXCEPT !.op = "exit 1",
                                         !.status = "exit 1",
                                         !.unknown = TRUE, !.at = now]
                /\ todo' = sources \o states
                /\ UNCHANGED <<reg, pc, args>>
           ELSE /\ reg' = r
                /\ Begin("check", sources \o states,
                         [NoArgs EXCEPT !.force = force])
                /\ ev' = [NoEvent EXCEPT !.op = "load", !.at = now]
    /\ UNCHANGED <<orch, now, disk, file>>

\* One pass of the loop over the sources.
CheckSourceStep(response) ==
    /\ pc = "check"
    /\ Head(todo).kind = "federal"
    /\ LET src == GetSource(reg, Head(todo).key)
           skip == should_skip(src, args.force, now)
           res == check_source(src, response, now)
           e == [NoEvent EXCEPT !.cmd = "check", !.kind = "federal",
                                !.key = src.id, !.pre = src,
                                !.force = args.force, !.ret = skip,
                                !.at = now]
       IN  /\ skip[1] \/ res.src.error_count <= MaxErr
           /\ ev' = IF skip[1]
                    THEN [e EXCEPT !.op = "skip",
                                   !.counts = tally(counts, "skipped")]
                    ELSE [e EXCEPT !.op = IF res.status = "gated"
                                          THEN "gated" ELSE "probe",
                                   !.status = res.status,
                                   !.counts = tally(counts, res.status)]
           /\ reg' = IF skip[1] THEN reg ELSE SetSource(reg, src.id, res.src)
    /\ Proceed
    /\ UNCHANGED <<orch, now, disk, file>>

\* One pass of the loop over the WQP jurisdictions.
CheckWqpStep(response) ==
    /\ pc = "check"
    /\ Head(todo).kind = "wqp"
    /\ LET abbr == Head(todo).key
           st == reg.wqp_states[abbr]
           skip == should_skip(st, args.force, now)
           status == probe(response)[1]
           st2 == [update_backoff_fields(st, status, now)
                      EXCEPT !.status = status]
           e == [NoEvent EXCEPT !.cmd = "check", !.kind = "wqp",
                                !.key = abbr, !.pre = st,
                                !.force = args.force, !.ret = skip,
                                !.at = now]
       IN  /\ skip[1] \/ st2.error_count <= MaxErr
           /\ ev' = IF skip[1]
                    THEN [e EXCEPT !.op = "skip",
                                   !.counts = tally(counts, "skipped")]
                    ELSE [e EXCEPT !.op = "probe", !.status = status,
                                   !.counts = tally(counts, status)]
           /\ reg' = IF skip[1] THEN reg ELSE SetWqp(reg, abbr, st2)
    /\ Proceed
    /\ UNCHANGED <<orch, now, disk, file>>

\* ------------------------------------------------- fetch.py: main (fetch)

\* fetch_result that marks a record degraded when a fetch fails.
fetch_result_degrades(rec, got_data, dry_run, utcnow) ==
    IF got_data
    THEN [rec EXCEPT !.last_fetch = utcnow, !.last_success = utcnow,
                     !.error_count = 0]
    ELSE IF ~dry_run THEN [rec EXCEPT !.error_count = @ + 1,
                                      !.status = "degraded"]
    ELSE rec

\* The record after `df is not None` / `elif not args.dry_run` in the
\* source, segment and states modes and for a WQP item of a batch.
fetch_result(rec, got_data, dry_run, utcnow) ==
    IF got_data
    THEN [rec EXCEPT !.last_fetch = utcnow, !.last_success = utcnow,
                     !.error_count = 0]
    ELSE IF ~dry_run THEN [rec EXCEPT !.error_count = @ + 1]
    ELSE rec

\* Whether dispatch_fetch is called for the id in the source and segment
\* modes.
Fetchable(src) ==
    /\ src.status # "dead"
    /\ src.id \notin OutOfBand
    /\ src.id \in FETCHER_MAP \/ src.id \in STATE_SOCRATA_URLS

FetchEvent(cmd, kind, key, pre, got_data) ==
    [NoEvent EXCEPT !.op = "fetch", !.cmd = cmd, !.kind = kind, !.key = key,
                    !.pre = pre,
                    !.status = IF got_data THEN "data" ELSE "no data",
                    !.at = now]
NotFetched(cmd, kind, key, pre) ==
    [NoEvent EXCEPT !.op = "not fetched", !.cmd = cmd, !.kind = kind,
                    !.key = key, !.pre = pre, !.at = now]

\* fetch.py main, --next-batch N, up to its loop.
StartFetchBatch(n, dry_run) ==
    /\ pc = "idle"
    /\ ~Unparseable
    /\ n >= 1
    /\ LET r == load_registry
           batch == pick_next_batch(r, n)
       IN  IF batch = << >>
           THEN \* nothing to fetch: return without saving
                /\ ev' = [NoEvent EXCEPT !.op = "nothing", !.at = now]
                /\ UNCHANGED <<reg, pc, args, todo>>
           ELSE /\ reg' = r
                /\ Begin("fetch_batch", batch,
                         [NoArgs EXCEPT !.dry_run = dry_run])
                /\ ev' = [NoEvent EXCEPT !.op = "load", !.at = now]
    /\ UNCHANGED <<orch, now, disk, file>>

\* One pass of the loop over the batch: the registry after it.  A federal
\* item with a FETCHER_MAP or STATE_SOCRATA_URLS entry is stamped whatever
\* its fetchers return; one with no entry is passed over.
fetch_batch_item(r, item, got_data, dry_run, utcnow) ==
    IF item.kind = "federal"
    THEN LET src == GetSource(r, item.key)
         IN  IF src.id \in FETCHER_MAP \/ src.id \in STATE_SOCRATA_URLS
             THEN SetSource(r, src.id, [src EXCEPT !.last_fetch = utcnow,
                                                   !.last_success = utcnow])
             ELSE r
    ELSE SetWqp(r, item.key,
                fetch_result(r.wqp_states[item.key], got_data, dry_run,
                             utcnow))

\* One pass of the loop over the batch.  A fetcher returns no data under
\* --dry-run.
FetchBatchStep(got) ==
    /\ pc = "fetch_batch"
    /\ LET item == Head(todo)
           got_data == got /\ ~args.dry_run
           pre == IF item.kind = "federal" THEN GetSource(reg, item.key)
                  ELSE reg.wqp_states[item.key]
       IN  /\ item.kind = "wqp" =>
                  fetch_result(pre, got_data, args.dry_run, now).error_count
                      <= MaxErr
           /\ reg' = fetch_batch_item(reg, item, got_data, args.dry_run, now)
           /\ ev' = FetchEvent("next-batch", item.kind, item.key, pre,
                               got_data)
    /\ Proceed
    /\ UNCHANGED <<orch, now, disk, file>>

\* fetch.py main, --source ID: the whole mode up to its save.
FetchSource(source, dry_run, got) ==
    /\ pc = "idle"
    /\ ~Unparseable
    /\ source # NoSource
    /\ LET r == load_registry
           got_data == got /\ ~dry_run
       IN  IF source \notin SourceIds(r)
           THEN /\ reg' = r
                /\ ev' = [NoEvent EXCEPT !.op = "unknown", !.unknown = TRUE,
                                         !.at = now]
           ELSE LET src == GetSource(r, source)
                    src2 == fetch_result(src, got_data, dry_run, now)
                IN  IF ~Fetchable(src)
                    THEN /\ reg' = r
                         /\ ev' = NotFetched("source", "federal", src.id, src)
                    ELSE /\ src2.error_count <= MaxErr
                         /\ reg' = SetSource(r, src.id, src2)
                         /\ ev' = FetchEvent("source", "federal", src.id,
                                             src, got_data)
    /\ Begin("fetch", << >>, NoArgs)
    /\ UNCHANGED <<orch, now, disk, file>>

NoSegment == ""
\* Two of the four --segment choices: the type of the sources of the
\* catalogs, and a type none of them has.
Segments == {"federal", "state"}

\* The jurisdictions --states may name: those of the registry and one that
\* is not in it.
StatesArgs == {<< >>, <<"ZZ", "MD">>}

\* fetch.py main without --next-batch and --source, up to its first loop.
StartFetch(segment, states, all_states, dry_run) ==
    /\ pc = "idle"
    /\ ~Unparseable
    /\ LET r == load_registry
           inseg == SelectSeq(r.sources, LAMBDA x : x.type = segment)
           sorted == StableSort(inseg,
                                {ij \in (DOMAIN inseg) \X (DOMAIN inseg) :
                                     inseg[ij[1]].priority
                                         < inseg[ij[2]].priority})
           sources == IF segment # NoSegment
                      THEN [i \in 1..Len(sorted) |->
                               Target("federal", sorted[i].id)]
                      ELSE << >>
           target_states == IF states # << >> THEN WqpTargets(states)
                            ELSE IF all_states THEN SortedWqpTargets(r)
                            ELSE << >>
       IN  /\ reg' = r
           /\ Begin("fetch", sources \o target_states,
                    [NoArgs EXCEPT !.dry_run = dry_run])
    /\ ev' = [NoEvent EXCEPT !.op = "load", !.at = now]
    /\ UNCHANGED <<orch, now, disk, file>>

\* One pass of the loop over the sources of the segment.
FetchSegmentStep(got) ==
    /\ pc = "fetch"
    /\ Head(todo).kind = "federal"
    /\ LET src == GetSource(reg, Head(todo).key)
           got_data == got /\ ~args.dry_run
           src2 == fetch_result(src, got_data, args.dry_run, now)
       IN  /\ IF ~Fetchable(src)
              THEN /\ reg' = reg
                   /\ ev' = NotFetched("fetch", "federal", src.id, src)
              ELSE /\ src2.error_count <= MaxErr
                   /\ reg' = SetSource(reg, src.id, src2)
                   /\ ev' = FetchEvent("fetch", "federal", src.id, src,
                                       got_data)
    /\ Proceed
    /\ UNCHANGED <<orch, now, disk, file>>

\* One pass of the loop over the jurisdictions of --states / --all-states.
FetchStatesStep(got) ==
    /\ pc = "fetch"
    /\ Head(todo).kind = "wqp"
    /\ LET abbr == Head(todo).key
           got_data == got /\ ~args.dry_run
       IN  /\ IF abbr \notin DOMAIN reg.wqp_states
              THEN /\ reg' = reg
                   /\ ev' = [NoEvent EXCEPT !.op = "unknown", !.kind = "wqp",
                                            !.key = abbr, !.unknown = TRUE,
                                            !.at = now]
              ELSE LET st == reg.wqp_states[abbr]
                       st2 == fetch_result(st, got_data, args.dry_run, now)
                       met == ev.unknown
                   IN  IF st.status = "dead"
                       THEN /\ reg' = reg
                            /\ ev' = [NotFetched("fetch", "wqp", abbr, st)
                                         EXCEPT !.unknown = met]
                       ELSE /\ st2.error_count <= MaxErr
                            /\ reg' = SetWqp(reg, abbr, st2)
                            /\ ev' = [FetchEvent("fetch", "wqp", abbr, st,
                                                 got_data)
                                         EXCEPT !.unknown = met]
    /\ Proceed
    /\ UNCHANGED <<orch, now, disk, file>>

\* ------------------------------------------------------ stale.py: revive

\* Whether the reviver takes a response for a success.
Answers(response) == response.kind = "http" /\ response.code < 300

\* The last alternate that answers, 0 when none does.
FirstAnswer_last(responses) ==
    IF \E i \in DOMAIN responses : Answers(responses[i])
    THEN CHOOSE i \in DOMAIN responses :
             /\ Answers(responses[i])
             /\ \A j \in DOMAIN responses : j > i => ~Answers(responses[j])
    ELSE 0

\* The first alternate that answers, 0 when none does.
FirstAnswer(responses) ==
    IF \E i \in DOMAIN responses : Answers(responses[i])
    THEN CHOOSE i \in DOMAIN responses :
             /\ Answers(responses[i])
             /\ \A j \in 1..(i - 1) : ~Answers(responses[j])
    ELSE 0

\* The body of revive's loop over the sources, for a dead source: the
\* record after its alternates have come back with the responses.
revive_source(src, responses, utcnow) ==
    LET k == FirstAnswer(responses)
    IN  IF k = 0 THEN src
        ELSE [src EXCEPT !.status = "live", !.url = src.alt_urls[k],
                         !.error_count = 0, !.last_checked = utcnow]

\* The body of revive's loop over the WQP jurisdictions, for a dead one.
revive_wqp(st, response) ==
    IF Answers(response)
    THEN [st EXCEPT !.status = "live", !.error_count = 0]
    ELSE st

\* stale.py main --revive, up to revive's first loop.
StartRevive ==
    /\ pc = "idle"
    /\ ~Unparseable
    /\ LET r == load_registry
       IN  /\ reg' = r
           /\ Begin("revive",
                    SourceTargets(r, SourceIds(r)) \o SortedWqpTargets(r),
                    NoArgs)
    /\ ev' = [NoEvent EXCEPT !.op = "load", !.at = now]
    /\ UNCHANGED <<orch, now, disk, file>>

\* revive's counter after the passes so far of the running command.
revived == IF ev.cmd = "revive" THEN ev.n ELSE 0

\* The event of a pass that sent requests: ret holds, for each request in
\* the order of the alternates, whether it would answer; n is the counter
\* after the pass.
ReviveEvent(kind, key, pre, post) ==
    [NoEvent EXCEPT !.op = "revive", !.cmd = "revive", !.kind = kind,
                    !.key = key, !.pre = pre,
                    !.status = post.status, !.at = now,
                    !.n = IF post.status = "live" THEN revived + 1
                          ELSE revived]

\* One pass of revive's loop over the sources.
ReviveSourceStep ==
    /\ pc = "revive"
    /\ Head(todo).kind = "federal"
    /\ LET src == GetSource(reg, Head(todo).key)
       IN  /\ IF src.status # "dead" \/ src.alt_urls = << >>
              THEN /\ reg' = reg
                   /\ ev' = [NoEvent EXCEPT !.op = "untouched",
                                 !.cmd = "revive", !.kind = "federal",
                                 !.key = src.id, !.pre = src, !.at = now,
                                 !.n = revived]
              ELSE \E responses \in [DOMAIN src.alt_urls -> Outcomes] :
                     LET src2 == revive_source(src, responses, now)
                         answers == [i \in DOMAIN responses |->
                                        Answers(responses[i])]
                     IN  /\ reg' = SetSource(reg, src.id, src2)
                         /\ ev' = [ReviveEvent("federal", src.id, src, src2)
                                      EXCEPT !.ret = <<FALSE, answers>>]
    /\ Proceed
    /\ UNCHANGED <<orch, now, disk, file>>

\* One pass of revive's loop over the WQP jurisdictions.
ReviveWqpStep ==
    /\ pc = "revive"
    /\ Head(todo).kind = "wqp"
    /\ LET abbr == Head(todo).key
           st == reg.wqp_states[abbr]
       IN  /\ IF st.status # "dead"
              THEN /\ reg' = reg
                   /\ ev' = [NoEvent EXCEPT !.op = "untouched",
                                 !.cmd = "revive", !.kind = "wqp",
                                 !.key = abbr, !.pre = st, !.at = now,
                                 !.n = revived]
              ELSE \E response \in Outcomes :
                     LET st2 == revive_wqp(st, response)
                     IN  /\ reg' = SetWqp(reg, abbr, st2)
                         /\ ev' = [ReviveEvent("wqp", abbr, st, st2)
                                      EXCEPT !.ret = <<FALSE,
                                                      <<Answers(response)>> >>]
    /\ Proceed
    /\ UNCHANGED <<orch, now, disk, file>>

\* ------------------------------------------- the scheduler on its own

\* The catalogs of the registries the scheduler is applied to: two sources
\* it may pick, with or without a source left to other means before them,
\* and two jurisdictions that the mapping holds in another order than
\* sorted() gives.
BatchCatalogs ==
    { [sources |-> (IF portal
                    THEN << [id |-> "wqp-portal", type |-> "federal",
                             priority |-> 1, url |-> "url",
                             alt_urls |-> << >>] >>
                    ELSE << >>)
                   \o << [id |-> "usgs-nwis", type |-> "federal",
                          priority |-> 1, url |-> "url", alt_urls |-> << >>],
                         [id |-> "epa-sdwis", type |-> "federal",
                          priority |-> 2, url |-> "url",
                          alt_urls |-> << >>] >>,
       wqp |-> << [abbr |-> "VA", fips |-> "51", name |-> "Virginia",
                   priority |-> 1],
                  [abbr |-> "MD", fips |-> "24", name |-> "Maryland",
                   priority |-> p] >>] :
      portal \in BOOLEAN, p \in {1, 2} }

\* The minute the scheduler is applied at, and the minutes at which the
\* records may have been fetched before.
BatchStart == 15
FetchTimes == {0, 15}

\* The records a new record may have become by BatchStart: fetched with
\* success or not, then probed by the check command or not.
Histories(new, times) ==
    LET fetched == {new} \cup {fetch_result(new, TRUE, FALSE, t) : t \in times}
        checked(rec, status) ==
            [update_backoff_fields(rec, status, BatchStart)
                 EXCEPT !.status = status]
    IN  UNION { {rec, checked(rec, "live"), checked(rec, "degraded"),
                 checked(rec, "dead")} : rec \in fetched }

SourceHistories(c) ==
    Histories(NewSource(c, "live"), {0}) \cup {NewSource(c, "gated")}
WqpHistories(c) ==
    Histories(NewWqpState(c, "live"), FetchTimes)
        \cup {NewWqpState(c, "gated")}

\* The registry of a catalog whose last two sources are s2 and s3 and whose
\* jurisdictions are w1 and w2.
BatchRegistry(c, s2, s3, w1, w2) ==
    [meta |-> [updated |-> 0],
     sources |-> [i \in 1..(Len(c.sources) - 2) |->
                      NewSource(c.sources[i], "live")] \o <<s2, s3>>,
     wqp_order |-> <<c.wqp[1].abbr, c.wqp[2].abbr>>,
     wqp_states |-> [a \in {c.wqp[1].abbr, c.wqp[2].abbr} |->
                        IF a = c.wqp[1].abbr THEN w1 ELSE w2]]

BatchInit ==
    /\ now = BatchStart
    /\ \E c \in BatchCatalogs :
       \E s2 \in SourceHistories(c.sources[Len(c.sources) - 1]),
          s3 \in SourceHistories(c.sources[Len(c.sources)]),
          w1 \in WqpHistories(c.wqp[1]), w2 \in WqpHistories(c.wqp[2]) :
           disk = BatchRegistry(c, s2, s3, w1, w2)
    /\ reg = disk
    /\ pc = "idle"
    /\ args = NoArgs
    /\ todo = << >>
    /\ ev = NoEvent
    /\ orch = NoOrch
    /\ file = "whole"

\* pick_next_batch is applied to the registry; todo is the list it returns.
PickBatch(n) ==
    /\ pc = "idle"
    /\ todo' = pick_next_batch(reg, n)
    /\ ev' = [NoEvent EXCEPT !.op = "pick", !.cmd = "next-batch", !.n = n,
                             !.at = now]
    /\ UNCHANGED <<orch, now, disk, reg, pc, args, file>>

BatchNext == \E n \in 0..MaxBatch : PickBatch(n)

BatchSpec == BatchInit /\ [][BatchNext]_vars

\* ------------------------------------------------------ stale.py: report

\* The age brackets, in the order classify_age tries them.
AGE_BRACKETS ==
    << [threshold |-> 730, label |-> "Current (< 2yr)",
        key |-> "decision-grade"],
       [threshold |-> 1825, label |-> "Valid for trends (2-5yr)",
        key |-> "trend-analysis"],
       [threshold |-> 3650, label |-> "Supplemental (5-10yr)",
        key |-> "supplemental"],
       [threshold |-> None, label |-> "Historical only (>10yr)",
        key |-> "historical"] >>

\* The minutes of a day: timedelta.days counts whole days.
MinutesPerDay == 1440

\* stale.py days_since: the whole days from the timestamp to utcnow, None
\* when there is no timestamp.
days_since(iso_str, utcnow) ==
    IF iso_str = None THEN None
    ELSE (utcnow - iso_str) \div MinutesPerDay

\* classify_age with each threshold counted into its own bracket.
classify_age_inclusive(days) ==
    IF days = None THEN <<"Never fetched", "never">>
    ELSE LET hits == {i \in DOMAIN AGE_BRACKETS :
                          \/ AGE_BRACKETS[i].threshold = None
                          \/ days <= AGE_BRACKETS[i].threshold}
             first == CHOOSE i \in hits : \A j \in hits : i <= j
         IN  <<AGE_BRACKETS[first].label, AGE_BRACKETS[first].key>>

\* stale.py classify_age: <<label, key>> of the first bracket the age is
\* below.
classify_age(days) ==
    IF days = None THEN <<"Never fetched", "never">>
    ELSE LET hits == {i \in DOMAIN AGE_BRACKETS :
                          \/ AGE_BRACKETS[i].threshold = None
                          \/ days < AGE_BRACKETS[i].threshold}
             first == CHOOSE i \in hits : \A j \in hits : i <= j
         IN  <<AGE_BRACKETS[first].label, AGE_BRACKETS[first].key>>

\* The if/elif chain of report with the test of the age before that of the
\* status.
report_section_age_first(rec, age, threshold_days) ==
    IF age = None THEN "never"
    ELSE IF rec.status = "dead" THEN "dead"
    ELSE IF age > threshold_days THEN "stale"
    ELSE "none"

\* The if/elif chain of report: the list a record of that age is appended
\* to, "none" when it is appended to no list.
report_section(rec, age, threshold_days) ==
    IF rec.status = "dead" THEN "dead"
    ELSE IF age = None THEN "never"
    ELSE IF age > threshold_days THEN "stale"
    ELSE "none"

\* The keys of the age brackets.
BracketKeys ==
    {"decision-grade", "trend-analysis", "supplemental", "historical", "never"}

\* stale.py report: the three lists of sources (ids) and of jurisdictions
\* (codes) it prints, and the count of each bracket.
report(r, threshold_days, utcnow) ==
    LET age(rec) == days_since(rec.last_success, utcnow)
        ids == [i \in 1..Len(r.sources) |-> r.sources[i].id]
        abbrs == SortedAbbrs(DOMAIN r.wqp_states)
        sources(section) ==
            SelectSeq(ids, LAMBDA id :
                report_section(GetSource(r, id), age(GetSource(r, id)),
                               threshold_days) = section)
        wqp(section) ==
            SelectSeq(abbrs, LAMBDA a :
                report_section(r.wqp_states[a], age(r.wqp_states[a]),
                               threshold_days) = section)
        count(key) ==
            Cardinality({i \in 1..Len(r.sources) :
                             classify_age(age(r.sources[i]))[2] = key})
                + Cardinality({a \in DOMAIN r.wqp_states :
                                   classify_age(age(r.wqp_states[a]))[2] = key})
    IN  [threshold |-> threshold_days,
         dead_sources |-> sources("dead"),
         stale_sources |-> sources("stale"),
         never_fetched |-> sources("never"),
         dead_wqp |-> wqp("dead"),
         stale_wqp |-> wqp("stale"),
         never_wqp |-> wqp("never"),
         brackets |-> [k \in BracketKeys |-> count(k)]]

\* The default of --threshold.
DEFAULT_THRESHOLD == 365

\* stale.py main with every flag taken as given.
stale_steps_both(flag_report, flag_revive) ==
    [report |-> TRUE, revive |-> TRUE]

\* stale.py main: the steps the flags select; the report is the default.
stale_steps(flag_report, flag_revive) ==
    [report |-> flag_report \/ (~flag_report /\ ~flag_revive),
     revive |-> flag_revive]

\* stale.py main when the report runs: report(reg, threshold) reads the
\* registry and prints; then revive's loops are entered if --revive was
\* given, and the command ends without a save if not.
StaleReport(flag_report, flag_revive, threshold_days) ==
    /\ pc = "idle"
    /\ ~Unparseable
    /\ stale_steps(flag_report, flag_revive).report
    /\ LET r == load_registry
       IN  /\ reg' = r
           /\ ev' = [NoEvent EXCEPT
                        !.op = "report", !.cmd = "report",
                        !.status = "exit 0", !.at = now,
                        !.force = flag_revive,
                        !.report = report(r, threshold_days, now)]
           /\ IF stale_steps(flag_report, flag_revive).revive
              THEN Begin("revive",
                         SourceTargets(r, SourceIds(r))
                             \o SortedWqpTargets(r),
                         NoArgs)
              ELSE UNCHANGED <<pc, args, todo>>
    /\ UNCHANGED <<orch, now, disk, file>>

\* ------------------------------------ the commands over several targets

\* The catalog of a registry with three targets.
RunCatalog ==
    [sources |-> << [id |-> "usgs-nwis", type |-> "federal", priority |-> 1,
                     url |-> "url", alt_urls |-> <<"alt1", "alt2">>],
                    [id |-> "epa-sdwis", type |-> "federal", priority |-> 2,
                     url |-> "url", alt_urls |-> << >>] >>,
     wqp |-> << [abbr |-> "MD", fips |-> "24", name |-> "Maryland",
                 priority |-> 1] >>]

\* The minute the commands run at; the registry was written at minute 0.
RunStart == 15

RunInit ==
    /\ now = RunStart
    /\ \E s1, s2, w1 \in {"live", "gated"} :
           disk = [meta |-> [updated |-> 0],
                   sources |-> <<NewSource(RunCatalog.sources[1], s1),
                                 NewSource(RunCatalog.sources[2], s2)>>,
                   wqp_order |-> <<"MD">>,
                   wqp_states |->
                       [a \in {"MD"} |-> NewWqpState(RunCatalog.wqp[1], w1)]]
    /\ reg = disk
    /\ pc = "idle"
    /\ args = NoArgs
    /\ todo = << >>
    /\ ev = NoEvent
    /\ orch = NoOrch
    /\ file = "whole"

\* The check (without --force), next-batch and revive commands, each up to
\* its save or to the kill of its process.
RunNext ==
    \/ \E source \in SourceArgs, wqp \in BOOLEAN :
           StartCheck(FALSE, source, wqp)
    \/ \E response \in Outcomes : CheckSourceStep(response)
    \/ \E response \in Outcomes : CheckWqpStep(response)
    \/ \E n \in 1..MaxBatch, dry_run \in BOOLEAN : StartFetchBatch(n, dry_run)
    \/ \E got \in BOOLEAN : FetchBatchStep(got)
    \/ StartRevive
    \/ ReviveSourceStep
    \/ ReviveWqpStep
    \/ Save
    \/ Kill

RunSpec == RunInit /\ [][RunNext]_vars

\* ------------------------------------------- two processes at a time

\* Two check commands run as two processes on the same file.  Here reg, pc
\* and todo are pairs: what the process p holds in memory, where it is
\* ("idle" before it starts, "done" after its save), and the targets it has
\* still to visit.
Processes == {1, 2}
Other(p) == 3 - p

\* The minute the first of the two may start at.
OverlapStart == 15

OverlapInit ==
    /\ now = OverlapStart
    /\ \E s1, w1 \in {"live", "gated"} :
           disk = [meta |-> [updated |-> 0],
                   sources |-> <<NewSource(RunCatalog.sources[1], s1)>>,
                   wqp_order |-> <<"MD">>,
                   wqp_states |->
                       [a \in {"MD"} |-> NewWqpState(RunCatalog.wqp[1], w1)]]
    /\ reg = <<disk, disk>>
    /\ pc = <<"idle", "idle">>
    /\ args = NoArgs
    /\ todo = << <<>>, <<>> >>
    /\ ev = NoEvent
    /\ orch = NoOrch
    /\ file = "whole"

\* health.py main up to its first loop, in the process p: the registry is
\* read with no lock taken.
OverlapLoad(p, source, wqp) ==
    /\ pc[p] = "idle"
    /\ LET r == load_registry
           ids == IF source # NoSource THEN {source} \cap SourceIds(r)
                  ELSE SourceIds(r)
           sources == IF ~wqp \/ source # NoSource
                      THEN SourceTargets(r, ids) ELSE << >>
           states == IF wqp \/ source = NoSource
                     THEN SortedWqpTargets(r) ELSE << >>
       IN  /\ reg' = [reg EXCEPT ![p] = r]
           /\ todo' = [todo EXCEPT ![p] = sources \o states]
           /\ pc' = [pc EXCEPT ![p] = IF sources \o states = << >>
                                      THEN "save" ELSE "check"]
    /\ ev' = [NoEvent EXCEPT !.op = "load", !.n = p,
                             !.overlap = ev.overlap, !.at = now]
    /\ UNCHANGED <<orch, now, disk, args, file>>

\* One pass of a loop of health.py main in the process p.
OverlapCheckStep(p, response) ==
    /\ pc[p] = "check"
    /\ LET target == Head(todo[p])
           r == reg[p]
           rec == IF target.kind = "federal" THEN GetSource(r, target.key)
                  ELSE r.wqp_states[target.key]
           skip == should_skip(rec, FALSE, now)
           status == IF target.kind = "federal"
                     THEN check_source(rec, response, now).status
                     ELSE probe(response)[1]
           rec2 == IF target.kind = "federal"
                   THEN check_source(rec, response, now).src
                   ELSE [update_backoff_fields(rec, status, now)
                            EXCEPT !.status = status]
           r2 == IF skip[1] THEN r
                 ELSE IF target.kind = "federal"
                 THEN SetSource(r, target.key, rec2)
                 ELSE SetWqp(r, target.key, rec2)
       IN  /\ reg' = [reg EXCEPT ![p] = r2]
           /\ ev' = [NoEvent EXCEPT
                        !.op = IF skip[1] THEN "skip"
                               ELSE IF status = "gated" THEN "gated"
                               ELSE "probe",
                        !.kind = target.kind, !.key = target.key,
                        !.status = IF skip[1] THEN "none" ELSE status,
                        !.n = p, !.overlap = ev.overlap, !.at = now]
    /\ todo' = [todo EXCEPT ![p] = Tail(@)]
    /\ pc' = [pc EXCEPT ![p] = IF Tail(todo[p]) = << >>
                               THEN "save" ELSE "check"]
    /\ UNCHANGED <<orch, now, disk, args, file>>

\* save_registry in the process p: meta.updated is stamped in memory and
\* the file is overwritten with what p holds.
OverlapSave(p) ==
    /\ pc[p] = "save"
    /\ disk' = save_registry(reg[p])
    /\ reg' = [reg EXCEPT ![p] = [@ EXCEPT !.meta.updated = now]]
    /\ pc' = [pc EXCEPT ![p] = "done"]
    /\ ev' = [NoEvent EXCEPT
                 !.op = "save", !.n = p, !.status = "exit 0",
                 !.overlap = ev.overlap \/ pc[Other(p)] \in {"check", "save"},
                 !.at = now]
    /\ UNCHANGED <<orch, now, args, todo, file>>

OverlapNext ==
    \/ Tick
    \/ \E p \in Processes, source \in SourceArgs \ {"no-such-source"},
          wqp \in BOOLEAN : OverlapLoad(p, source, wqp)
    \/ \E p \in Processes, response \in Outcomes :
           OverlapCheckStep(p, response)
    \/ \E p \in Processes : OverlapSave(p)

OverlapSpec == OverlapInit /\ [][OverlapNext]_vars

\* ------------------------------------------ the functions, on their inputs

\* The catalog the registries of the report are created from.
ReportCatalog ==
    [sources |-> << [id |-> "usgs-nwis", type |-> "federal", priority |-> 1,
                     url |-> "url", alt_urls |-> << >>],
                    [id |-> "epa-sdwis", type |-> "federal", priority |-> 2,
                     url |-> "url", alt_urls |-> << >>] >>,
     wqp |-> << [abbr |-> "VA", fips |-> "51", name |-> "Virginia",
                 priority |-> 1],
                [abbr |-> "MD", fips |-> "24", name |-> "Maryland",
                 priority |-> 2] >>]

\* The minute the report runs at, the ages in days the first source and the
\* first jurisdiction may have then (the second ones have never been
\* fetched), and the part of a day the last success lies further back.
ReportTime == 5760000
AgeDays == {0, 400, 729, 730, 800, 1824, 1825, 3649, 3650}
WqpAgeDays == {0, 800}
PartOfDay == 719

\* The records a new record may have become by ReportTime: gated from the
\* start, or fetched with success at one of the ages or never, and then
\* found dead by the check command or not.
ReportHistories(new, gated, ages) ==
    LET fetched ==
            {new} \cup {fetch_result(new, TRUE, FALSE,
                                     ReportTime - d * MinutesPerDay
                                         - PartOfDay) : d \in ages}
        dead(rec) ==
            [update_backoff_fields(rec, "dead", ReportTime)
                 EXCEPT !.status = "dead"]
    IN  {gated} \cup fetched \cup {dead(rec) : rec \in fetched}

ReportSourceHistories(c, ages) ==
    ReportHistories(NewSource(c, "live"), NewSource(c, "gated"), ages)
ReportWqpHistories(c, ages) ==
    ReportHistories(NewWqpState(c, "live"), NewWqpState(c, "gated"), ages)

FunctionInit ==
    /\ now = ReportTime
    /\ \E s1 \in ReportSourceHistories(ReportCatalog.sources[1], AgeDays),
          s2 \in ReportSourceHistories(ReportCatalog.sources[2], {}),
          w1 \in ReportWqpHistories(ReportCatalog.wqp[1], WqpAgeDays),
          w2 \in ReportWqpHistories(ReportCatalog.wqp[2], {}) :
           disk = [meta |-> [updated |-> 0],
                   sources |-> <<s1, s2>>,
                   wqp_order |-> <<"VA", "MD">>,
                   wqp_states |-> [a \in {"VA", "MD"} |->
                                      IF a = "VA" THEN w1 ELSE w2]]
    /\ reg = disk
    /\ pc = "idle"
    /\ args = NoArgs
    /\ todo = << >>
    /\ ev = NoEvent
    /\ orch = NoOrch
    /\ file = "whole"

\* probe is applied to a response.
ApplyProbe(response) ==
    /\ ev' = [NoEvent EXCEPT !.op = "probe", !.kind = response.kind,
                             !.n = response.code,
                             !.status = probe(response)[1],
                             !.error = probe(response)[2], !.at = now]
    /\ UNCHANGED <<orch, now, disk, reg, pc, args, todo, file>>

\* classify_age is applied to an age in days, or to None.
ApplyClassifyAge(days) ==
    /\ ev' = [NoEvent EXCEPT !.op = "classify_age", !.n = days,
                             !.label = classify_age(days)[1],
                             !.status = classify_age(days)[2], !.at = now]
    /\ UNCHANGED <<orch, now, disk, reg, pc, args, todo, file>>

\* The thresholds --threshold is given.
Thresholds == {0, DEFAULT_THRESHOLD, 799}

FunctionNext ==
    \/ \E response \in Responses : ApplyProbe(response)
    \/ \E days \in AgeDays \cup {None} : ApplyClassifyAge(days)
    \/ \E flag_report \in BOOLEAN, threshold_days \in Thresholds :
           StaleReport(flag_report, FALSE, threshold_days)

FunctionSpec == FunctionInit /\ [][FunctionNext]_vars

\* -------------------------------------------------------------- the system

Next ==
    \/ Tick
    \/ \E force \in BOOLEAN, source \in SourceArgs, wqp \in BOOLEAN :
           StartCheck(force, source, wqp)
    \/ \E response \in Outcomes : CheckSourceStep(response)
    \/ \E response \in Outcomes : CheckWqpStep(response)
    \/ \E n \in 1..MaxBatch, dry_run \in BOOLEAN : StartFetchBatch(n, dry_run)
    \/ \E got \in BOOLEAN : FetchBatchStep(got)
    \/ \E source \in SourceArgs \ {NoSource}, dry_run \in BOOLEAN,
          got \in BOOLEAN : FetchSource(source, dry_run, got)
    \/ \E segment \in Segments \cup {NoSegment}, states \in StatesArgs,
          all_states \in BOOLEAN, dry_run \in BOOLEAN :
           StartFetch(segment, states, all_states, dry_run)
    \/ \E got \in BOOLEAN : FetchSegmentStep(got)
    \/ \E got \in BOOLEAN : FetchStatesStep(got)
    \/ StartRevive
    \/ ReviveSourceStep
    \/ ReviveWqpStep
    \/ \E flag_report, flag_revive \in BOOLEAN :
           StaleReport(flag_report, flag_revive, DEFAULT_THRESHOLD)
    \/ Save
    \/ SaveKilled
    \/ \E program \in Programs : LoadFails(program)

Spec == Init /\ [][Next]_vars

\* ------------------------------------------------------------ properties

\* The record the last step was about, as it is now.
Subject ==
    IF ev.kind = "federal" THEN GetSource(reg, ev.key)
    ELSE reg.wqp_states[ev.key]

\* The last step was a probe by the check command, and what it found.
Probed == ev.op = "probe"
FailedProbe == Probed /\ ev.status \in {"degraded", "dead"}
LiveProbe == Probed /\ ev.status = "live"

\* How long the record had been failing when the last step ran.
DownFor == ev.at - Subject.first_failure

\* C1: in every reachable state, in memory and persisted, every Source and
\* WQPState record has a first_failure if and only if its error_count is
\* positive.
C1_FirstFailureIffErrors ==
    \A r \in {disk, reg} :
        /\ \A i \in 1..Len(r.sources) :
               r.sources[i].first_failure # None
                   <=> r.sources[i].error_count > 0
        /\ \A a \in DOMAIN r.wqp_states :
               r.wqp_states[a].first_failure # None
                   <=> r.wqp_states[a].error_count > 0

\* C2: in every reachable state every record whose next_check_after is set
\* has next_check_after = last_checked + backoff_minutes.
C2_NextCheckDerived ==
    \A r \in {disk, reg} :
        /\ \A i \in 1..Len(r.sources) :
               r.sources[i].next_check_after # None
                   => r.sources[i].next_check_after
                          = r.sources[i].last_checked
                                + r.sources[i].backoff_minutes
        /\ \A a \in DOMAIN r.wqp_states :
               r.wqp_states[a].next_check_after # None
                   => r.wqp_states[a].next_check_after
                          = r.wqp_states[a].last_checked
                                + r.wqp_states[a].backoff_minutes

\* C3: a probe of a non-gated record that comes back degraded or dead raises
\* error_count by exactly 1 and leaves next_check_after after last_checked.
C3_FailingProbeCounts ==
    FailedProbe /\ ev.pre.status # "gated"
        => /\ Subject.error_count = ev.pre.error_count + 1
           /\ Subject.next_check_after > Subject.last_checked

\* A failing probe of a record that had failed before.
C3_Witness ==
    /\ FailedProbe
    /\ ev.pre.status # "gated"
    /\ ev.pre.error_count >= 1
    /\ Subject.error_count = ev.pre.error_count + 1

\* C4: a probe of a non-gated record that comes back live leaves
\* error_count = 0, no first_failure, backoff_minutes = 5 and
\* next_check_after = now + 5, whatever the record's failures before.
C4_LiveProbeResets ==
    LiveProbe /\ ev.pre.status # "gated"
        => /\ Subject.error_count = 0
           /\ Subject.first_failure = None
           /\ Subject.backoff_minutes = 5
           /\ Subject.next_check_after = ev.at + 5

\* A live probe of a record that had been failing.
C4_Witness ==
    /\ LiveProbe
    /\ ev.pre.status \in {"degraded", "dead"}
    /\ ev.pre.error_count >= 2
    /\ ev.pre.first_failure # None
    /\ Subject.error_count = 0

\* C5: a gated record, Source or WQPState, is not probed, and no step of a
\* check, next-batch or revive run changes any of its fields.
C5_GatedUntouched ==
    ev.cmd \in {"check", "next-batch", "revive"} /\ ev.pre.status = "gated"
        => ~Probed /\ Subject = ev.pre

\* C6: a step that takes a record's error_count from a positive value to 0
\* leaves the record with status live.
C6_ResetOnlyWhenLive ==
    ev.pre.status # "none"
        => (ev.pre.error_count > 0 /\ Subject.error_count = 0
               => Subject.status = "live")

\* The tiers as the backoff policy states them.
C7_CountTier(n) == IF n >= 4 THEN 60 ELSE 15
C7_DurationTier(d, n) ==
    IF d > 7 * 24 * 60 THEN 1440
    ELSE IF d > 24 * 60 THEN 360
    ELSE C7_CountTier(n)
C7_Max(x, y) == IF x >= y THEN x ELSE y

\* C7: after a failing probe backoff_minutes is the larger of the count tier
\* of the new error_count and the duration tier of now - first_failure, and
\* is at most 1440.
C7_BackoffIsMaxOfTiers ==
    FailedProbe
        => /\ Subject.backoff_minutes
                  = C7_Max(C7_CountTier(Subject.error_count),
                           C7_DurationTier(DownFor, Subject.error_count))
           /\ Subject.backoff_minutes <= 1440

\* A failing probe where the duration tier is the larger one.
C7_Witness ==
    /\ FailedProbe
    /\ Subject.error_count >= 4
    /\ DownFor > 7 * 24 * 60
    /\ Subject.backoff_minutes = 1440

\* C8, as claimed: a failing probe of a record with error_count = 3 leaves
\* error_count = 4 and backoff_minutes = 60.
C8_EscalatesTo60 ==
    FailedProbe /\ ev.pre.error_count = 3
        => Subject.error_count = 4 /\ Subject.backoff_minutes = 60

\* C8, amended: a failing probe of a record with error_count = 3 leaves
\* error_count = 4 and a backoff_minutes that is 60 when first_failure is at
\* most 24 hours old, and 360 or 1440 when it is older; it is never 15.
C8_EscalatesUnlessLongDown ==
    FailedProbe /\ ev.pre.error_count = 3
        => /\ Subject.error_count = 4
           /\ DownFor <= 24 * 60 => Subject.backoff_minutes = 60
           /\ DownFor > 24 * 60 => Subject.backoff_minutes \in {360, 1440}

\* The fourth failure in a row within the first day.
C8_Witness ==
    /\ FailedProbe
    /\ ev.pre.error_count = 3
    /\ ev.pre.first_failure # None
    /\ Subject.backoff_minutes = 60

\* C9: after a failing probe a record with error_count = 1 whose
\* first_failure is more than 24 hours (and not more than 7 days) old has
\* backoff_minutes = 360, and a record with any error_count >= 1 whose
\* first_failure is more than 7 days old has 1440.
C9_DurationOverridesCount ==
    FailedProbe
        => /\ Subject.error_count = 1 /\ DownFor > 24 * 60
                  /\ DownFor <= 7 * 24 * 60
              => Subject.backoff_minutes = 360
           /\ Subject.error_count >= 1 /\ DownFor > 7 * 24 * 60
              => Subject.backoff_minutes = 1440

\* A first counted failure of a record that has been down for over a day.
C9_Witness ==
    /\ FailedProbe
    /\ Subject.error_count = 1
    /\ DownFor > 24 * 60
    /\ Subject.backoff_minutes = 360

\* C10: should_skip returns (true, reason) exactly when force is false,
\* next_check_after is present and now < next_check_after, and (false, null)
\* otherwise, whatever next_check_after is when force is true.
C10_ShouldSkip ==
    ev.cmd = "check"
        => LET due == ev.pre.next_check_after
               wait == ~ev.force /\ due # None /\ ev.at < due
           IN  /\ ev.ret[1] <=> wait
               /\ wait => ev.ret[2] # NoReason /\ ev.ret[2][1] = due - ev.at
               /\ ~wait => ev.ret = <<FALSE, NoReason>>

\* A forced check of a record whose next check is still in the future.
C10_Witness ==
    /\ ev.cmd = "check"
    /\ ev.force
    /\ ev.pre.next_check_after # None
    /\ ev.at < ev.pre.next_check_after
    /\ ev.ret = <<FALSE, NoReason>>
    /\ Probed

\* The last step sent a request for the record without --force: a probe of
\* the check command, or the reviver trying a dead record.
NonForcedProbe ==
    \/ Probed /\ ~ev.force
    \/ ev.op = "revive"

\* C11: when a record is probed without --force, at least the
\* backoff_minutes its previous probe set have passed since that probe (so
\* at least 24 hours for a record that had been failing for over 7 days),
\* whether the check command or the reviver sends the request.
C11_BackoffElapses ==
    NonForcedProbe /\ ev.pre.last_checked # None
                   /\ ev.pre.backoff_minutes # None
        => ev.at - ev.pre.last_checked >= ev.pre.backoff_minutes

\* The last step applied pick_next_batch, and the list it returned.
Picked == ev.op = "pick"
Batch == todo

\* The records the scheduler may put in a batch.
C12_Eligible(r) ==
    \/ \E i \in 1..Len(r.sources) :
           /\ r.sources[i].status \notin {"dead", "gated"}
           /\ r.sources[i].id \notin {"wqp-portal", "epa-attains"}
           /\ r.sources[i].last_fetch = None
    \/ \E a \in DOMAIN r.wqp_states : r.wqp_states[a].status # "dead"

\* C12: the list pick_next_batch returns for a batch_size N >= 0 has at most
\* N items, and for N >= 1 it is empty only when the registry has no record
\* the scheduler may pick.
C12_RespectsBudget ==
    Picked => /\ Len(Batch) <= ev.n
              /\ ev.n >= 1 /\ Batch = << >> => ~C12_Eligible(reg)

\* The WQP items of the batch, in the order of the batch.
WqpItems == SelectSeq(Batch, LAMBDA item : item.kind = "wqp")

\* C14: in the list pick_next_batch returns, every WQP item whose last_fetch
\* is absent comes before every WQP item whose last_fetch is present,
\* whatever the priorities of the two.
C14_NeverFetchedFirst ==
    Picked =>
        \A i, j \in DOMAIN WqpItems :
            /\ reg.wqp_states[WqpItems[i].key].last_fetch = None
            /\ reg.wqp_states[WqpItems[j].key].last_fetch # None
            => i < j

\* A batch where a never-fetched jurisdiction of lower priority comes before
\* a fetched one of higher priority.
C14_Witness ==
    /\ Picked
    /\ Len(WqpItems) = 2
    /\ reg.wqp_states[WqpItems[1].key].last_fetch = None
    /\ reg.wqp_states[WqpItems[2].key].last_fetch # None
    /\ reg.wqp_states[WqpItems[1].key].priority
           > reg.wqp_states[WqpItems[2].key].priority

\* C15: pick_next_batch returns an empty list when every source and every
\* WQP jurisdiction has been fetched and is within its backoff window.
C15_EmptyWhenAllWaiting ==
    Picked
      /\ (\A i \in 1..Len(reg.sources) :
              /\ reg.sources[i].last_fetch # None
              /\ reg.sources[i].next_check_after # None
              /\ ev.at < reg.sources[i].next_check_after)
      /\ (\A a \in DOMAIN reg.wqp_states :
              /\ reg.wqp_states[a].last_fetch # None
              /\ reg.wqp_states[a].next_check_after # None
              /\ ev.at < reg.wqp_states[a].next_check_after)
        => Batch = << >>

\* The last step was the reviver promoting a dead record to live.
Revived == ev.op = "revive" /\ ev.pre.status = "dead" /\ ev.status = "live"

\* C16: a dead source the reviver promotes through an alternate URL is left
\* with status live, one of its alternates as url, error_count = 0, no
\* first_failure and last_checked = now.
C16_RevivedSource ==
    Revived /\ ev.kind = "federal"
        => /\ Subject.status = "live"
           /\ \E k \in DOMAIN Subject.alt_urls :
                  Subject.url = Subject.alt_urls[k]
           /\ Subject.error_count = 0
           /\ Subject.first_failure = None
           /\ Subject.last_checked = ev.at

\* C17: a dead WQP jurisdiction whose minimal query succeeds is left with
\* status live, error_count = 0, no first_failure and last_checked = now.
C17_RevivedWqp ==
    Revived /\ ev.kind = "wqp"
        => /\ Subject.status = "live"
           /\ Subject.error_count = 0
           /\ Subject.first_failure = None
           /\ Subject.last_checked = ev.at

\* C18: whenever save_registry is interrupted, registry.json holds a whole
\* document, the one before the save or the one being saved.
C18_SaveIsAtomic == file = "whole"

\* The run of a command has ended, by its save or by sys.exit.
RunEnded == pc = "idle" /\ ev.op \in {"save", "exit 1"}

\* C19: a check or fetch run that was given an id the registry does not
\* hold leaves none of its other targets unvisited and ends with a non-zero
\* completion status.
C19_UnknownIdNonFatal ==
    RunEnded /\ ev.unknown => todo = << >> /\ ev.status = "exit 1"

\* A program was started on an unparseable registry and has ended.
Aborted == ev.op = "abort" /\ ev.status = "exit 1"

\* C20: while the persisted registry cannot be parsed, a step is a program
\* that aborts at load (or the clock): no command enters its loops, no
\* record in memory changes, save does not run and the file stays as it is.
C20_CorruptRegistryIsFatal ==
    [][file = "partial" /\ pc = "idle"
          => /\ pc' = "idle"
             /\ reg' = reg
             /\ disk' = disk
             /\ file' = file
             /\ ev' = ev \/ Aborted']_vars

\* The reviver was started on an unparseable registry and aborted.
C20_Witness ==
    /\ file = "partial"
    /\ Aborted
    /\ ev.cmd = "stale.py --revive"
    /\ pc = "idle"

\* The sources the federal phase may append, in registry order.
C29_Pickable(r) ==
    SelectSeq(r.sources,
              LAMBDA src : /\ src.status \notin {"dead", "gated"}
                           /\ src.id \notin {"wqp-portal", "epa-attains"}
                           /\ src.last_fetch = None)

\* C29: in the list pick_next_batch returns every federal item comes before
\* every WQP item, and when the sources alone fill the budget the list holds
\* no WQP item.
C29_FederalFirst ==
    Picked =>
        /\ \A i, j \in DOMAIN Batch :
               Batch[i].kind = "federal" /\ Batch[j].kind = "wqp" => i < j
        /\ Len(C29_Pickable(reg)) >= ev.n => WqpItems = << >>

\* A batch of one source followed by one jurisdiction.
C29_Witness ==
    /\ Picked
    /\ Len(Batch) = 2
    /\ Batch[1].kind = "federal"
    /\ Batch[2].kind = "wqp"

\* The federal items of the batch, in the order of the batch.
FederalItems == SelectSeq(Batch, LAMBDA item : item.kind = "federal")

\* C30: no item of the list pick_next_batch returns is a dead record; no
\* federal item is gated, is wqp-portal or epa-attains, or has a last_fetch;
\* the federal items are in registry order.
C30_OnlyPickable ==
    Picked =>
        /\ \A i \in DOMAIN WqpItems :
               reg.wqp_states[WqpItems[i].key].status # "dead"
        /\ \A i \in DOMAIN FederalItems :
               LET src == GetSource(reg, FederalItems[i].key)
               IN  /\ src.status \notin {"dead", "gated"}
                   /\ src.id \notin {"wqp-portal", "epa-attains"}
                   /\ src.last_fetch = None
        /\ \A i, j \in DOMAIN FederalItems :
               i < j => SourceIndex(reg, FederalItems[i].key)
                            < SourceIndex(reg, FederalItems[j].key)

\* A batch of the two unfetched sources that follow wqp-portal, in registry
\* order, while a gated jurisdiction is left to the WQP phase.
C30_Witness ==
    /\ Picked
    /\ reg.sources[1].id = "wqp-portal"
    /\ Len(FederalItems) = 2
    /\ FederalItems[1].key = reg.sources[2].id
    /\ FederalItems[2].key = reg.sources[3].id

\* The report has just been printed.
Reported == ev.op = "report"

\* The elements of a sequence.
Range(seq) == {seq[i] : i \in DOMAIN seq}

\* The age report computes for a record.
ReportAge(rec) == days_since(rec.last_success, ev.at)

\* C24: report changes no field of any record, and a command that runs only
\* the report ends without a save: after it no command is running and the
\* registry in memory is the persisted one.
C24_ReportReadOnly ==
    Reported =>
        /\ reg = disk
        /\ file = "whole"
        /\ ~ev.force => pc = "idle" /\ todo = << >>

\* A report-only run over a registry that holds a dead record and a record
\* whose last success is older than the threshold.
C24_Witness ==
    /\ Reported
    /\ ~ev.force
    /\ ev.report.dead_sources # << >>
    /\ ev.report.stale_wqp # << >>

\* The lists of report hold these records, sources and jurisdictions alike:
\* dead when the status is dead, stale when it is not and the age is above
\* the threshold, never-fetched when the age is null (and, unless
\* dead_too, the status is not dead).
C25_Lists(dead_too) ==
    LET dead(rec, age) == rec.status = "dead"
        stale(rec, age) == /\ rec.status # "dead"
                           /\ age # None
                           /\ age > ev.report.threshold
        never(rec, age) == age = None /\ (dead_too \/ rec.status # "dead")
    IN
    /\ \A i \in DOMAIN reg.sources :
           LET src == reg.sources[i]
               age == ReportAge(src)
           IN  /\ src.id \in Range(ev.report.dead_sources)
                      <=> dead(src, age)
               /\ src.id \in Range(ev.report.stale_sources)
                      <=> stale(src, age)
               /\ src.id \in Range(ev.report.never_fetched)
                      <=> never(src, age)
    /\ \A a \in DOMAIN reg.wqp_states :
           LET st == reg.wqp_states[a]
               age == ReportAge(st)
           IN  /\ a \in Range(ev.report.dead_wqp) <=> dead(st, age)
               /\ a \in Range(ev.report.stale_wqp) <=> stale(st, age)
               /\ a \in Range(ev.report.never_wqp) <=> never(st, age)

\* The counts of the brackets, added up.
RECURSIVE SumOver(_, _)
SumOver(f, keys) ==
    IF keys = {} THEN 0
    ELSE LET k == CHOOSE x \in keys : TRUE
         IN  f[k] + SumOver(f, keys \ {k})

C25_CountsAddUp ==
    SumOver(ev.report.brackets, BracketKeys)
        = Len(reg.sources) + Cardinality(DOMAIN reg.wqp_states)

\* C25 as stated: a record is listed dead exactly when its status is dead,
\* stale exactly when it is not dead and older than the threshold, and
\* never-fetched exactly when its age is null.
C25_NeverFetchedWheneverNoAge ==
    Reported =>
        /\ C25_Lists(TRUE)
        /\ C25_CountsAddUp

\* C25, amended: never-fetched exactly when the record is not dead and its
\* age is null; the three lists are disjoint, and the counts of the brackets
\* add up to the number of sources plus the number of jurisdictions.
C25_ReportPartition ==
    Reported =>
        /\ C25_Lists(FALSE)
        /\ C25_CountsAddUp

\* A report over a dead source that never succeeded, a never-fetched source
\* that is not dead, and a stale jurisdiction.
C25_Witness ==
    /\ Reported
    /\ ev.report.dead_sources = <<"usgs-nwis">>
    /\ reg.sources[1].last_success = None
    /\ ev.report.never_fetched = <<"epa-sdwis">>
    /\ ev.report.stale_wqp = <<"VA">>

\* classify_age has just been applied to ev.n.
Classified == ev.op = "classify_age"

\* C26 as stated: the bracket of every age below 730 days is "current".
C26_BelowTwoYearsIsCurrent ==
    Classified /\ ev.n # None /\ ev.n < 730 => ev.status = "current"

\* C26, amended: classify_age returns the pair of a label and a key: "Never
\* fetched" and "never" for null, "Current (< 2yr)" and "decision-grade"
\* below 730 days, "trend-analysis" in [730, 1825), "supplemental" in
\* [1825, 3650) and "historical" from 3650 on.
C26_ClassifyAge ==
    Classified =>
        LET days == ev.n
        IN  /\ days = None
                => ev.label = "Never fetched" /\ ev.status = "never"
            /\ days # None /\ days < 730
                => ev.label = "Current (< 2yr)" /\ ev.status = "decision-grade"
            /\ days # None /\ 730 <= days /\ days < 1825
                => ev.label = "Valid for trends (2-5yr)"
                   /\ ev.status = "trend-analysis"
            /\ days # None /\ 1825 <= days /\ days < 3650
                => ev.label = "Supplemental (5-10yr)"
                   /\ ev.status = "supplemental"
            /\ days # None /\ 3650 <= days
                => ev.label = "Historical only (>10yr)"
                   /\ ev.status = "historical"

\* classify_age applied to 730 days, the first age of the second bracket.
C26_Witness ==
    /\ Classified
    /\ ev.n = 730
    /\ ev.status = "trend-analysis"

\* probe has just been applied to a response of kind ev.kind and code ev.n.
ProbeApplied == ev.op = "probe"

\* C27: probe returns live for an HTTP status below 300, degraded and "HTTP
\* {code}" for one in [300, 500), dead and "HTTP {code}" for one from 500
\* on, degraded and "Timeout" for a timeout, and dead for a connection
\* failure or any other exception; no field of the registry changes.
C27_ProbeClassifies ==
    ProbeApplied =>
        /\ ev.kind = "http" /\ ev.n < 300
               => ev.status = "live" /\ ev.error = NoError
        /\ ev.kind = "http" /\ 300 <= ev.n /\ ev.n < 500
               => ev.status = "degraded" /\ ev.error = <<"HTTP", ev.n>>
        /\ ev.kind = "http" /\ 500 <= ev.n
               => ev.status = "dead" /\ ev.error = <<"HTTP", ev.n>>
        /\ ev.kind = "timeout"
               => ev.status = "degraded" /\ ev.error = <<"Timeout">>
        /\ ev.kind \in {"connection", "other"} => ev.status = "dead"
        /\ reg = disk

\* probe applied to a response with status 500.
C27_Witness ==
    /\ ProbeApplied
    /\ ev.kind = "http"
    /\ ev.n = 500
    /\ ev.status = "dead"

\* C21: every pass of the check loops, whatever the probe came back with,
\* goes on to the next target, or to the save when the target was the last;
\* the registry is written in no pass, and the save writes what the run
\* holds in memory and ends the run.  (A kill of the process is no step of
\* the command.)
C21_OneSaveAfterLastTarget ==
    [][ev'.op # "killed" =>
           /\ pc = "check" =>
                  /\ todo' = Tail(todo)
                  /\ pc' = IF Tail(todo) = << >> THEN "save" ELSE "check"
                  /\ disk' = disk
                  /\ ev'.op \in {"probe", "gated", "skip"}
           /\ pc = "save" =>
                  /\ pc' = "idle"
                  /\ disk'.sources = reg.sources
                  /\ disk'.wqp_states = reg.wqp_states]_vars

\* A check run has saved after it found the first source dead, the second
\* gated and the jurisdiction degraded.
C21_Witness ==
    /\ ev.op = "save"
    /\ disk.sources[1].status = "dead"
    /\ disk.sources[1].last_checked = now
    /\ disk.sources[2].status = "gated"
    /\ disk.wqp_states["MD"].status = "degraded"
    /\ disk.wqp_states["MD"].last_checked = now
    /\ disk.wqp_states["MD"].last_fetch = None

\* C22: the persisted registry changes only in the save, which a command
\* reaches when no target is left; a kill before the save leaves the file
\* as it was loaded, and what the run held in memory is gone.
C22_KillBeforeSaveLosesAll ==
    [][/\ disk' # disk \/ file' # file => pc = "save" /\ todo = << >>
       /\ ev'.op = "killed" /\ ev'.status # "file cut short" =>
              disk' = disk /\ file' = file /\ reg' = disk]_vars

\* A revive run was killed after it had changed a record in memory: the
\* dead source it could only have revived is dead in the file as before.
C22_Witness ==
    /\ ev.op = "killed"
    /\ ev.key = "revive"
    /\ ev.status = "updates lost"
    /\ disk.sources[1].status = "dead"
    /\ disk.wqp_states["MD"].status # "dead"
    /\ reg = disk

\* C28: a save of the registry as it was loaded leaves every source, in
\* order, and every jurisdiction as it was, null timestamps included; only
\* meta.updated changes.
C28_RoundTrip ==
    [][pc = "save" /\ ev'.op = "save" /\ reg = disk =>
           /\ disk'.sources = disk.sources
           /\ disk'.wqp_order = disk.wqp_order
           /\ disk'.wqp_states = disk.wqp_states
           /\ disk'.meta.updated = now]_vars

\* A run that changed nothing has saved a registry of two sources whose
\* timestamps are all null.
C28_Witness ==
    /\ ev.op = "save"
    /\ disk.meta.updated = RunStart
    /\ Len(disk.sources) = 2
    /\ \A i \in 1..2 : /\ disk.sources[i].last_checked = None
                       /\ disk.sources[i].last_fetch = None
                       /\ disk.sources[i].next_check_after = None
    /\ disk.sources[1].status = "live"
    /\ disk.wqp_states["MD"].last_checked = None
    /\ disk.wqp_states["MD"].last_fetch = None

\* Both processes have saved, and the first to save did so while the other
\* held the registry it had loaded before.
BothSavedOverlapping ==
    /\ pc = <<"done", "done">>
    /\ ev.op = "save"
    /\ ev.overlap

\* C23: when two invocations overlap, the registry persisted after both
\* have saved is what the one that saved last holds in memory: where the
\* two differ, nothing of the other is in the file.  No lock keeps the two
\* from running so (BothSavedOverlapping is reached).
C23_LastSaveWins ==
    BothSavedOverlapping =>
        /\ disk = reg[ev.n]
        /\ \A i \in DOMAIN disk.sources :
               reg[Other(ev.n)].sources[i] # reg[ev.n].sources[i]
                   => disk.sources[i] # reg[Other(ev.n)].sources[i]
        /\ \A a \in DOMAIN disk.wqp_states :
               reg[Other(ev.n)].wqp_states[a] # reg[ev.n].wqp_states[a]
                   => disk.wqp_states[a] # reg[Other(ev.n)].wqp_states[a]

\* Process 1 found the source dead and saved; process 2, which had loaded
\* before that and probed the jurisdiction only, saved after it: the source
\* is in the file as it was before process 1 ran.
C23_Witness ==
    /\ BothSavedOverlapping
    /\ ev.n = 2
    /\ reg[1].sources[1].status = "dead"
    /\ reg[2].sources[1].last_checked = None
    /\ disk.sources[1].status = "live"
    /\ disk.sources[1].last_checked = None
    /\ disk.wqp_states["MD"].last_checked # None

\* The jurisdiction a comes strictly before the jurisdiction b in the order
\* of the WQP phase: never fetched before fetched, then the older last_fetch,
\* then the lower priority number.
C31_Before(a, b) ==
    LET x == reg.wqp_states[a]
        y == reg.wqp_states[b]
    IN  \/ x.last_fetch = None /\ y.last_fetch # None
        \/ /\ x.last_fetch # None
           /\ y.last_fetch # None
           /\ x.last_fetch < y.last_fetch
        \/ /\ x.last_fetch = y.last_fetch
           /\ x.priority < y.priority

\* C31: among the WQP items pick_next_batch returns, no item comes after one
\* it is strictly before in that order (older last_fetch first, then lower
\* priority number), and no jurisdiction that is not dead and was left out
\* is strictly before one that was taken.
C31_OldestFirst ==
    Picked =>
        /\ \A i, j \in DOMAIN WqpItems :
               i < j => ~C31_Before(WqpItems[j].key, WqpItems[i].key)
        /\ \A a \in DOMAIN reg.wqp_states :
               /\ reg.wqp_states[a].status # "dead"
               /\ a \notin {WqpItems[i].key : i \in DOMAIN WqpItems}
               => \A i \in DOMAIN WqpItems : ~C31_Before(a, WqpItems[i].key)

\* Of two fetched jurisdictions the one fetched earlier was taken and the
\* other, although of lower priority number, was left out.
C31_Witness ==
    /\ Picked
    /\ Len(WqpItems) = 1
    /\ \E a \in DOMAIN reg.wqp_states :
           /\ a # WqpItems[1].key
           /\ reg.wqp_states[a].status # "dead"
           /\ reg.wqp_states[a].last_fetch # None
           /\ reg.wqp_states[WqpItems[1].key].last_fetch # None
           /\ reg.wqp_states[WqpItems[1].key].last_fetch
                  < reg.wqp_states[a].last_fetch
           /\ reg.wqp_states[a].priority
                  < reg.wqp_states[WqpItems[1].key].priority

\* The last step was a pass of one of revive's loops.
RevivePass == ev.cmd = "revive" /\ ev.op \in {"revive", "untouched"}

\* The number of records the running command has turned from dead to live.
TurnedLive ==
    Cardinality({i \in DOMAIN reg.sources :
                     /\ disk.sources[i].status = "dead"
                     /\ reg.sources[i].status = "live"})
        + Cardinality({a \in DOMAIN reg.wqp_states :
                           /\ disk.wqp_states[a].status = "dead"
                           /\ reg.wqp_states[a].status = "live"})

\* C32: revive takes as url the first alternate, in alt_urls order, whose
\* request answers, and none when no request does; a dead source with no
\* alternates and a record that is not dead keep every field; the count
\* revive reports is the number of records it turned from dead to live.
C32_ReviveInOrder ==
    RevivePass =>
        /\ ev.pre.status # "dead" => Subject = ev.pre /\ ev.op = "untouched"
        /\ ev.kind = "federal" /\ ev.pre.status = "dead" =>
               LET alts == ev.pre.alt_urls
                   answers == ev.ret[2]
               IN  /\ alts = << >> => Subject = ev.pre /\ ev.op = "untouched"
                   /\ \A k \in DOMAIN alts :
                          /\ ev.op = "revive"
                          /\ answers[k]
                          /\ \A j \in 1..(k - 1) : ~answers[j]
                          => Subject.url = alts[k] /\ Subject.status = "live"
                   /\ /\ ev.op = "revive"
                      /\ \A k \in DOMAIN alts : ~answers[k]
                      => Subject = ev.pre
        /\ ev.n = TurnedLive

\* revive has turned a source live through its second alternate, after the
\* first did not answer, and then a jurisdiction: its count is 2.
C32_Witness ==
    /\ RevivePass
    /\ ev.kind = "wqp"
    /\ ev.op = "revive"
    /\ ev.status = "live"
    /\ ev.n = 2
    /\ reg.sources[1].url = "alt2"
    /\ disk.sources[1].status = "dead"
    /\ reg.sources[2].status = "dead"

\* C33: a failing probe of a record whose error_count had been reset to 0
\* (by a live probe, a successful fetch or revive) starts a new streak:
\* error_count = 1, first_failure = the time of the probe and
\* backoff_minutes = DEGRADED_INTERVAL_MIN, never one of the duration tiers.
C33_NewStreakStartsFresh ==
    FailedProbe /\ ev.pre.error_count = 0
        => /\ Subject.error_count = 1
           /\ Subject.first_failure = ev.at
           /\ Subject.backoff_minutes = DEGRADED_INTERVAL_MIN

\* ------------------------------------- next-batch, run after run

\* The registry the runs start from: two sources FETCHER_MAP and
\* STATE_SOCRATA_URLS have no entry for, one they have, two jurisdictions.
CycleCatalog ==
    [sources |-> << [id |-> "noaa-coops", type |-> "noaa", priority |-> 1,
                     url |-> "url", alt_urls |-> << >>],
                    [id |-> "noaa-ndbc", type |-> "noaa", priority |-> 2,
                     url |-> "url", alt_urls |-> << >>],
                    [id |-> "usgs-nwis", type |-> "federal", priority |-> 1,
                     url |-> "url", alt_urls |-> << >>] >>,
     wqp |-> << [abbr |-> "VA", fips |-> "51", name |-> "Virginia",
                 priority |-> 1],
                [abbr |-> "MD", fips |-> "24", name |-> "Maryland",
                 priority |-> 2] >>]

\* Every record is new, and live or marked gated by hand.
CycleInit ==
    /\ now = 0
    /\ \E ss \in [1..3 -> {"live", "gated"}],
          ws \in [{"VA", "MD"} -> {"live", "gated"}] :
           disk = [meta |-> [updated |-> 0],
                   sources |-> [i \in 1..3 |->
                                    NewSource(CycleCatalog.sources[i], ss[i])],
                   wqp_order |-> <<"VA", "MD">>,
                   wqp_states |-> [a \in {"VA", "MD"} |->
                       NewWqpState(CycleCatalog.wqp[IF a = "VA" THEN 1 ELSE 2],
                                   ws[a])]]
    /\ reg = disk
    /\ pc = "idle"
    /\ args = NoArgs
    /\ todo = << >>
    /\ ev = NoEvent
    /\ orch = NoOrch
    /\ file = "whole"

\* The loop over the batch when every fetcher returns data.
RECURSIVE fetch_batch(_, _, _)
fetch_batch(r, batch, utcnow) ==
    IF batch = << >> THEN r
    ELSE fetch_batch(fetch_batch_item(r, Head(batch), TRUE, FALSE, utcnow),
                     Tail(batch), utcnow)

\* The N the runs so far were started with: every run is started with the
\* same one.
SameBatchSize(n) == ev.cmd = "next-batch" => ev.n = n

\* fetch.py main, --next-batch N, from load_registry to its return, when
\* every fetcher returns data: an empty batch returns without saving.
NextBatchRun(n) ==
    /\ pc = "idle"
    /\ n >= 1
    /\ SameBatchSize(n)
    /\ \E batch \in {pick_next_batch(load_registry, n)} :
       \E r \in {fetch_batch(load_registry, batch, now)} :
       \E saved \in {IF batch = << >> THEN disk ELSE save_registry(r)} :
           /\ todo' = batch
           /\ disk' = saved
           /\ reg' = saved
    /\ ev' = [NoEvent EXCEPT !.op = "run", !.cmd = "next-batch", !.n = n,
                             !.at = now]
    /\ UNCHANGED <<orch, now, pc, args, file>>

CycleNext ==
    \/ Tick
    \/ \E n \in 1..MaxBatch : NextBatchRun(n)

\* next-batch is run again and again.
CycleSpec ==
    /\ CycleInit
    /\ [][CycleNext]_vars
    /\ WF_vars(\E n \in 1..MaxBatch : NextBatchRun(n))

\* C34: under repeated next-batch runs with one batch size N >= 1 in which
\* every fetch returns data, every jurisdiction that is not dead is
\* eventually fetched (its last_fetch is set): sources that stay never
\* fetched do not hold the whole budget for ever.
C34_EveryJurisdictionFetched ==
    <>(\A a \in DOMAIN disk.wqp_states :
           disk.wqp_states[a].status # "dead"
               => disk.wqp_states[a].last_fetch # None)

\* The last step was a fetch of a record, in any mode, and what it returned.
Fetched == ev.op = "fetch"
FetchedNoData == Fetched /\ ev.status = "no data"

\* C35: a fetch that returns no data, as every fetch under --dry-run does,
\* leaves last_fetch and last_success of the record as they were, in
\* next-batch mode as in the source, segment and states modes.
C35_StampedOnlyOnData ==
    FetchedNoData
        => /\ Subject.last_fetch = ev.pre.last_fetch
           /\ Subject.last_success = ev.pre.last_success

\* The last step was a pass of a loop of fetch.py over a record of the
\* registry, fetched or passed over.
FetchPass == ev.op \in {"fetch", "not fetched"}

\* C36: no fetch, in any mode, changes status, first_failure,
\* backoff_minutes, next_check_after or last_checked of a record: the record
\* after the step is the record before it but for last_fetch, last_success
\* and error_count, so fetches that fail leave its status as it was.
C36_FetchFrame ==
    FetchPass
        => /\ Subject.status = ev.pre.status
           /\ Subject.first_failure = ev.pre.first_failure
           /\ Subject.backoff_minutes = ev.pre.backoff_minutes
           /\ Subject.next_check_after = ev.pre.next_check_after
           /\ Subject.last_checked = ev.pre.last_checked
           /\ Subject = [ev.pre EXCEPT !.last_fetch = Subject.last_fetch,
                                       !.last_success = Subject.last_success,
                                       !.error_count = Subject.error_count]

\* A third fetch in a row has returned no data for a live record, which is
\* still live.
C36_Witness ==
    /\ FetchedNoData
    /\ ev.pre.error_count = 2
    /\ Subject.error_count = 3
    /\ Subject.status = "live"
    /\ Subject.first_failure = None

\* The last step was a pass of one of the loops of a check run.
CheckPass == ev.cmd = "check" /\ ev.op \in {"skip", "probe", "gated"}

\* The sum of the counts of the summary.
Total(c) == c.live + c.degraded + c.dead + c.gated + c.skipped

\* C37: in a check run, a record should_skip returns true for is not probed,
\* keeps every field and adds one to skipped and to nothing else; every
\* other target adds one to exactly one of live, degraded, dead and gated,
\* the status found for it; so the counts sum to the number of targets the
\* run has considered.
C37_CheckCounts ==
    [][CheckPass' =>
          /\ ev'.ret[1] <=> ev'.op = "skip"
          /\ ev'.op = "skip" =>
                 /\ Subject' = ev'.pre
                 /\ counts' = [counts EXCEPT !.skipped = @ + 1]
          /\ ev'.op # "skip" =>
                 /\ ev'.status \in {"live", "degraded", "dead", "gated"}
                 /\ counts' = [counts EXCEPT ![ev'.status] = @ + 1]
          /\ Total(counts') = Total(counts) + 1
          /\ Total(counts') + Len(todo') = Len(todo) + Total(counts)]_vars

\* A check run has ended in which one target was skipped, one was gated and
\* one was probed and found dead.
C37_Witness ==
    /\ CheckPass
    /\ pc = "save"
    /\ counts = [ZeroCounts EXCEPT !.skipped = 1, !.gated = 1, !.dead = 1]

\* C38: after the check command has probed a record that was not gated, the
\* status of the record is what the probe returned, and it is live exactly
\* when error_count is 0.
C38_StatusMirrorsProbe ==
    Probed /\ ev.cmd = "check" /\ ev.pre.status # "gated"
        => /\ Subject.status = ev.status
           /\ Subject.status = "live" <=> Subject.error_count = 0

\* A probe has found live a record that was live with two failed fetches
\* counted: error_count is 0 again.
C38_Witness ==
    /\ Probed
    /\ ev.cmd = "check"
    /\ ev.pre.status = "live"
    /\ ev.pre.error_count = 2
    /\ Subject.status = "live"
    /\ Subject.error_count = 0

\* ------------------------------------------------ run.py: the orchestrator

\* The command lines of run.py: --skip-health, --health-only, --dry-run,
\* --all-states and --states.
OrchFlags ==
    [skip_health : BOOLEAN, health_only : BOOLEAN, dry_run : BOOLEAN,
     all_states : BOOLEAN, states : StatesArgs]

\* run.py main: the step that follows step `at`, "end" when main returns.
next_step(at, flags) ==
    IF at = "health" THEN IF flags.health_only THEN "end" ELSE "fetch"
    ELSE IF at = "fetch" THEN "stale"
    ELSE IF at = "stale" THEN IF flags.dry_run THEN "end" ELSE "output"
    ELSE "end"

OrchInit ==
    /\ now = RunStart
    /\ disk \in InitialRegistries
    /\ reg = disk
    /\ pc = "idle"
    /\ args = NoArgs
    /\ todo = << >>
    /\ ev = NoEvent
    /\ orch = NoOrch
    /\ file = "whole"

\* run.py main up to step 1.
OrchStart(flags) ==
    /\ orch.at = "off"
    /\ orch' = [NoOrch EXCEPT
                   !.flags = flags,
                   !.at = IF flags.skip_health
                          THEN next_step("health", flags) ELSE "health"]
    /\ UNCHANGED <<now, disk, reg, pc, args, todo, ev, file>>

\* steps_run += 1 and run_step up to subprocess.run: the process of the
\* step is started.
Launch ==
    /\ orch.at \in {"health", "fetch", "stale", "output"}
    /\ orch.child = ""
    /\ orch' = [orch EXCEPT !.steps_run = @ + 1, !.child = orch.at]
    /\ ev' = [NoEvent EXCEPT !.op = "launch", !.key = orch.at, !.at = now]
    /\ UNCHANGED <<now, disk, reg, pc, args, todo, file>>

\* The process of a step has been started and has not run yet.
Launched(name) == ev.op = "launch" /\ ev.key = name

\* A subprocess.run that returns without waiting for the process.
Wait_not ==
    /\ orch.child # ""
    /\ ~Launched(orch.child)
    /\ orch' = [orch EXCEPT
                   !.steps_ok = IF ev.status = "exit 0" THEN @ + 1 ELSE @,
                   !.log = Append(@, [step |-> orch.child,
                                      ok |-> ev.status = "exit 0"]),
                   !.child = "",
                   !.at = next_step(orch.at, orch.flags)]
    /\ UNCHANGED <<now, disk, reg, pc, args, todo, ev, file>>

\* run_step from the return of subprocess.run, which waits for the process
\* to exit, and `steps_ok += 1` when the return code is 0.
Wait ==
    /\ orch.child # ""
    /\ ~Launched(orch.child)
    /\ pc = "idle"
    /\ orch' = [orch EXCEPT
                   !.steps_ok = IF ev.status = "exit 0" THEN @ + 1 ELSE @,
                   !.log = Append(@, [step |-> orch.child,
                                      ok |-> ev.status = "exit 0"]),
                   !.child = "",
                   !.at = next_step(orch.at, orch.flags)]
    /\ UNCHANGED <<now, disk, reg, pc, args, todo, ev, file>>

\* Step 1: health.py [--fast].
HealthStep ==
    /\ Launched("health")
    /\ StartCheck(FALSE, NoSource, FALSE)

\* Step 2: fetch.py --from D, with --all-states, --states or
\* --segment federal, and --dry-run.
FetchStep ==
    /\ Launched("fetch")
    /\ IF orch.flags.all_states
       THEN StartFetch(NoSegment, << >>, TRUE, orch.flags.dry_run)
       ELSE IF orch.flags.states # << >>
       THEN StartFetch(NoSegment, orch.flags.states, FALSE,
                       orch.flags.dry_run)
       ELSE StartFetch("federal", << >>, FALSE, orch.flags.dry_run)

\* Step 3: stale.py --report.
StaleStep ==
    /\ Launched("stale")
    /\ StaleReport(TRUE, FALSE, DEFAULT_THRESHOLD)

\* Step 4: output.py --target T writes the .ts files from the CSV files
\* and exits, with return code 0 or, when it raises, 1.
OutputStep(returncode) ==
    /\ Launched("output")
    /\ pc = "idle"
    /\ ev' = [NoEvent EXCEPT !.op = "output", !.cmd = "output",
                             !.status = IF returncode = 0 THEN "exit 0"
                                        ELSE "exit 1",
                             !.at = now]
    /\ UNCHANGED <<orch, now, disk, reg, pc, args, todo, file>>

OrchNext ==
    \/ \E flags \in OrchFlags : OrchStart(flags)
    \/ Launch
    \/ Wait
    \/ HealthStep
    \/ \E response \in Outcomes : CheckSourceStep(response)
    \/ \E response \in Outcomes : CheckWqpStep(response)
    \/ FetchStep
    \/ \E got \in BOOLEAN : FetchSegmentStep(got)
    \/ \E got \in BOOLEAN : FetchStatesStep(got)
    \/ StaleStep
    \/ \E returncode \in {0, 1} : OutputStep(returncode)
    \/ Save
    \/ Kill

OrchSpec == OrchInit /\ [][OrchNext]_vars

\* The steps of the orchestrator in the order of the pipeline.
StepRank(name) ==
    CASE name = "health" -> 1
      [] name = "fetch" -> 2
      [] name = "stale" -> 3
      [] name = "output" -> 4

\* The steps whose process has been started so far, in the order they were
\* started.
StepsStarted ==
    [i \in 1..Len(orch.log) |-> orch.log[i].step]
        \o (IF orch.child = "" THEN << >> ELSE <<orch.child>>)

\* C39: the orchestrator starts its steps in the order health check, fetch,
\* staleness report, output generation, one at a time: a process that runs
\* is the one of the step main waits for, and a health check or fetch that
\* has returned 0 has saved; a step that failed does not keep the later
\* ones from running; with --health-only nothing but the health check is
\* started; steps_ok never exceeds steps_run.
C39_StepsInSequence ==
    /\ \A i, j \in DOMAIN StepsStarted :
           i < j => StepRank(StepsStarted[i]) < StepRank(StepsStarted[j])
    /\ pc # "idle" => orch.child \in {"health", "fetch"}
    /\ pc = "check" => orch.child = "health"
    /\ pc = "fetch" => orch.child = "fetch"
    /\ \A i \in DOMAIN orch.log :
           orch.log[i].ok /\ orch.log[i].step \in {"health", "fetch"}
               => disk.meta.updated = now
    /\ orch.flags.health_only =>
           \A i \in DOMAIN StepsStarted : StepsStarted[i] = "health"
    /\ orch.at = "end" /\ ~orch.flags.health_only =>
           /\ \E i \in DOMAIN orch.log : orch.log[i].step = "fetch"
           /\ \E i \in DOMAIN orch.log : orch.log[i].step = "stale"
           /\ ~orch.flags.dry_run =>
                  \E i \in DOMAIN orch.log : orch.log[i].step = "output"
    /\ orch.steps_ok <= orch.steps_run
    /\ orch.steps_run = Len(StepsStarted)
    /\ orch.steps_ok = Cardinality({i \in DOMAIN orch.log : orch.log[i].ok})

\* main has returned after four steps of which the health check and the
\* fetch failed and the staleness report and the output succeeded.
C39_Witness ==
    /\ orch.at = "end"
    /\ orch.log = << [step |-> "health", ok |-> FALSE],
                     [step |-> "fetch", ok |-> FALSE],
                     [step |-> "stale", ok |-> TRUE],
                     [step |-> "output", ok |-> TRUE] >>
    /\ orch.steps_run = 4
    /\ orch.steps_ok = 2

====
